---------------------------- MODULE Spec2Model ----------------------------
(***************************************************************************)
(* The chat grounding pipeline of the college-advisor application: the     *)
(* /api/gemini/chat request handler (entity extraction, record fetch,      *)
(* prompt composition, model session, event stream) and the catalog        *)
(* resolution it uses.                                                      *)
(*                                                                         *)
(* Strings are sequences of one-character strings.  Messages given to the  *)
(* entity extractor are words of letters separated by single spaces (no    *)
(* punctuation, no leading or trailing space); under that restriction the  *)
(* regular expressions of extractSchoolNames are matched word by word.     *)
(***************************************************************************)
EXTENDS Integers, Sequences, FiniteSets, TLC

VARIABLES
  arg,              \* input of the pure function under check (resolver / catalog)
  ret,              \* its result: [done, value]
  collegeList,      \* the static catalog: sequence of [label, value]
  method,           \* req.method
  body,             \* req.body: [messages, context]
  docs,             \* the collegeDatasets collection, in scan order
  scholarshipDocs,  \* the scholarships collection, in scan order
  pc,               \* position of the handler
  schoolsToCompare, \* handler local
  idx,              \* handler local: index of the running fetch loop
  cdsDataMap,       \* handler local: sequence of [school, doc] in insertion order
  askingAboutScholarships,
  scholarshipsMap,  \* handler local: sequence of [school, list] in insertion order
  systemPrompt,     \* handler local: sequence of prompt parts
  session,          \* the model session: [open, history, submitted]
  received,         \* fragments (chunk.text() values) the model has yielded so far
  res,              \* the HTTP response: [status, headersSent, ended, json, events]
  storeReads,       \* number of document-store reads (getDocs) issued
  caught,           \* the catch block's error binding: <<>> or <<error>>
  assistantTurn,    \* the assistant turn the client shows once the response is over
  tasks,            \* the requests handled as interleaved tasks: locals of each
  chat              \* a chat component: its React state and its requests in flight

vars == <<arg, ret, collegeList, method, body, docs, scholarshipDocs, pc,
          schoolsToCompare, idx, cdsDataMap, askingAboutScholarships,
          scholarshipsMap, systemPrompt, session, received, res, storeReads,
          caught, assistantTurn, tasks, chat>>

-----------------------------------------------------------------------------
(* String primitives (JavaScript String methods).                          *)

Min(S) == CHOOSE x \in S : \A y \in S : x <= y

LowerChar(c) ==
  CASE c = "A" -> "a"
    [] c = "B" -> "b"
    [] c = "C" -> "c"
    [] c = "D" -> "d"
    [] c = "E" -> "e"
    [] c = "F" -> "f"
    [] c = "G" -> "g"
    [] c = "H" -> "h"
    [] c = "I" -> "i"
    [] c = "J" -> "j"
    [] c = "K" -> "k"
    [] c = "L" -> "l"
    [] c = "M" -> "m"
    [] c = "N" -> "n"
    [] c = "O" -> "o"
    [] c = "P" -> "p"
    [] c = "Q" -> "q"
    [] c = "R" -> "r"
    [] c = "S" -> "s"
    [] c = "T" -> "t"
    [] c = "U" -> "u"
    [] c = "V" -> "v"
    [] c = "W" -> "w"
    [] c = "X" -> "x"
    [] c = "Y" -> "y"
    [] c = "Z" -> "z"
    [] OTHER -> c

\* String.prototype.toLowerCase
ToLower(s) == [i \in 1..Len(s) |-> LowerChar(s[i])]

\* t occurs in s at index i
OccursAt(t, s, i) ==
  /\ i + Len(t) - 1 <= Len(s)
  /\ \A j \in 1..Len(t) : s[i + j - 1] = t[j]

\* String.prototype.includes (the empty string is included in every string)
Includes(s, t) == \E i \in 1..(Len(s) - Len(t) + 1) : OccursAt(t, s, i)

StartsWith(s, t) == Len(t) <= Len(s) /\ OccursAt(t, s, 1)

EndsWith(s, t) == Len(t) <= Len(s) /\ OccursAt(t, s, Len(s) - Len(t) + 1)

\* the white-space characters that occur in the modelled strings
WhiteSpace == { " ", "\n" }

\* String.prototype.trim
RECURSIVE Trim(_)
Trim(s) ==
  IF s = <<>> THEN s
  ELSE IF Head(s) \in WhiteSpace THEN Trim(Tail(s))
  ELSE IF s[Len(s)] \in WhiteSpace THEN Trim(SubSeq(s, 1, Len(s) - 1))
  ELSE s

\* s.split(' ')[0]
FirstWord(s) ==
  LET sp == {i \in 1..Len(s) : s[i] = " "}
  IN IF sp = {} THEN s ELSE SubSeq(s, 1, Min(sp) - 1)

\* the words of a single-spaced string
RECURSIVE SplitWords(_)
SplitWords(s) ==
  IF s = <<>> THEN <<>>
  ELSE LET w == FirstWord(s)
           rest == SubSeq(s, Len(w) + 2, Len(s))
       IN IF w = <<>> THEN SplitWords(rest) ELSE <<w>> \o SplitWords(rest)

\* words joined by single spaces
RECURSIVE JoinWords(_)
JoinWords(ws) ==
  IF ws = <<>> THEN <<>>
  ELSE IF Len(ws) = 1 THEN ws[1]
  ELSE ws[1] \o <<" ">> \o JoinWords(Tail(ws))

\* [...new Set(xs)]: first occurrences, in order
RECURSIVE Dedupe(_)
Dedupe(xs) ==
  IF xs = <<>> THEN <<>>
  ELSE LET init == Dedupe(SubSeq(xs, 1, Len(xs) - 1))
           last == xs[Len(xs)]
       IN IF \E i \in 1..Len(init) : init[i] = last THEN init ELSE Append(init, last)

-----------------------------------------------------------------------------
(* extractSchoolNames                                                      *)

knownSchools ==
  <<
     <<"y", "a", "l", "e">>, <<"b", "r", "o", "w", "n">>,
     <<"h", "a", "r", "v", "a", "r", "d">>, <<"p", "r", "i", "n", "c", "e", "t", "o", "n">>,
     <<"c", "o", "l", "u", "m", "b", "i", "a">>, <<"c", "o", "r", "n", "e", "l", "l">>,
     <<"d", "a", "r", "t", "m", "o", "u", "t", "h">>, <<"p", "e", "n", "n">>,
     <<"s", "t", "a", "n", "f", "o", "r", "d">>, <<"m", "i", "t">>,
     <<"d", "u", "k", "e">>, <<"n", "o", "r", "t", "h", "w", "e", "s", "t", "e", "r", "n">>,
     <<"b", "e", "r", "k", "e", "l", "e", "y">>, <<"u", "c", "l", "a">>,
     <<"u", "s", "c">>, <<"n", "y", "u">>,
     <<"w", "a", "s", "h", "i", "n", "g", "t", "o", "n">>, <<"m", "i", "c", "h", "i", "g", "a", "n">>,
     <<"t", "e", "x", "a", "s">>, <<"f", "l", "o", "r", "i", "d", "a">>,
     <<"o", "h", "i", "o", " ", "s", "t", "a", "t", "e">>, <<"g", "e", "o", "r", "g", "i", "a">>,
     <<"v", "i", "r", "g", "i", "n", "i", "a">>, <<"n", "o", "t", "r", "e", " ", "d", "a", "m", "e">>,
     <<"v", "a", "n", "d", "e", "r", "b", "i", "l", "t">>, <<"r", "i", "c", "e">>,
     <<"e", "m", "o", "r", "y">>, <<"g", "e", "o", "r", "g", "e", "t", "o", "w", "n">>,
     <<"c", "a", "r", "n", "e", "g", "i", "e", " ", "m", "e", "l", "l", "o", "n">>, <<"j", "o", "h", "n", "s", " ", "h", "o", "p", "k", "i", "n", "s">>,
     <<"u", "w">>, <<"c", "a", "l">>,
     <<"p", "u", "r", "d", "u", "e">>, <<"i", "l", "l", "i", "n", "o", "i", "s">>,
     <<"w", "i", "s", "c", "o", "n", "s", "i", "n">>, <<"m", "a", "r", "y", "l", "a", "n", "d">>,
     <<"r", "u", "t", "g", "e", "r", "s">>, <<"a", "r", "i", "z", "o", "n", "a">>
  >>
k_university == <<"u", "n", "i", "v", "e", "r", "s", "i", "t", "y">>
k_of == <<"o", "f">>
k_have == <<"h", "a", "v", "e">>
k_offer == <<"o", "f", "f", "e", "r">>
k_scholarship == <<"s", "c", "h", "o", "l", "a", "r", "s", "h", "i", "p">>
k_and == <<"a", "n", "d">>
k_vs == <<"v", "s">>
k_versus == <<"v", "e", "r", "s", "u", "s">>
k_or == <<"o", "r">>
k_compared == <<"c", "o", "m", "p", "a", "r", "e", "d">>
k_to == <<"t", "o">>
W_Compare == <<"C", "o", "m", "p", "a", "r", "e">>
W_Yale == <<"Y", "a", "l", "e">>
W_yale == <<"y", "a", "l", "e">>
W_vs == <<"v", "s">>
W_versus == <<"v", "e", "r", "s", "u", "s">>
W_Brown == <<"B", "r", "o", "w", "n">>
W_tuition == <<"t", "u", "i", "t", "i", "o", "n">>
W_University == <<"U", "n", "i", "v", "e", "r", "s", "i", "t", "y">>
W_of == <<"o", "f">>
W_Fooville == <<"F", "o", "o", "v", "i", "l", "l", "e">>
W_and == <<"a", "n", "d">>
W_scholarship == <<"s", "c", "h", "o", "l", "a", "r", "s", "h", "i", "p">>
W_Penn == <<"P", "e", "n", "n">>
W_hi == <<"h", "i">>
W_ok == <<"o", "k">>
W_brown == <<"b", "r", "o", "w", "n">>
W_harvard == <<"h", "a", "r", "v", "a", "r", "d">>
W_washington == <<"w", "a", "s", "h", "i", "n", "g", "t", "o", "n">>

MaxNameLen == 30

\* the alternatives \s+have | \s+offer | \s+scholarship | \s+and of the
\* terminator group match a prefix of the next word
HasTermPrefix(w) ==
  LET l == ToLower(w)
  IN \/ StartsWith(l, k_have)
     \/ StartsWith(l, k_offer)
     \/ StartsWith(l, k_scholarship)
     \/ StartsWith(l, k_and)

\* (?:\s+have|\s+offer|\?|,|\.|\s+scholarship|\s+and|$) matches right after word j
TermAfter(ws, j) == j = Len(ws) \/ HasTermPrefix(ws[j + 1])

\* captures of uniOfPattern, searching from word s on
RECURSIVE UniOfMatches(_, _)
UniOfMatches(ws, s) ==
  LET n == Len(ws)
      starts == {k \in s..(n - 2) :
                   ToLower(ws[k]) = k_university /\ ToLower(ws[k + 1]) = k_of}
  IN IF starts = {} THEN <<>>
     ELSE LET k == Min(starts)
              e == Min({x \in (k + 2)..n : TermAfter(ws, x)})
              next == IF e = n THEN n + 1 ELSE e + 2
          IN <<JoinWords(SubSeq(ws, k + 2, e))>> \o UniOfMatches(ws, next)

\* captures of uniPattern kept by the length test, searching from word s on;
\* lead = 1 when the search resumes at the space before word s, which the
\* lazy group [\w\s]+? then captures as well
RECURSIVE UniMatches(_, _, _)
UniMatches(ws, s, lead) ==
  LET n == Len(ws)
      js == {j \in (s + 1)..n : ToLower(ws[j]) = k_university /\ TermAfter(ws, j)}
  IN IF js = {} THEN <<>>
     ELSE LET j == Min(js)
              cap == JoinWords(SubSeq(ws, s, j - 1))
              next == IF j = n THEN n + 1 ELSE j + 2
              rest == UniMatches(ws, next, 1)
          IN IF Len(cap) + lead < MaxNameLen THEN <<cap>> \o rest ELSE rest

\* number of words of the connective (vs|versus|compared to|or) at word c, 0 if none
ConnLen(ws, c) ==
  LET n == Len(ws)
  IN IF c <= n /\ ToLower(ws[c]) \in {k_vs, k_versus, k_or} THEN 1
     ELSE IF c + 1 <= n /\ ToLower(ws[c]) = k_compared /\ ToLower(ws[c + 1]) = k_to
       THEN 2
     ELSE 0

\* vsPattern tried at word k with g1 words in its first group: the word where
\* the second group starts, 0 when there is no match
VsTry(ws, k, g1) ==
  LET c == k + g1
      cl == ConnLen(ws, c)
  IN IF cl > 0 /\ c + cl <= Len(ws) THEN c + cl ELSE 0

\* both captures of every vsPattern match, searching from word s on
RECURSIVE VsMatches(_, _)
VsMatches(ws, s) ==
  LET n == Len(ws)
      starts == {k \in s..n : VsTry(ws, k, 2) # 0 \/ VsTry(ws, k, 1) # 0}
  IN IF starts = {} THEN <<>>
     ELSE LET k == Min(starts)
              g1 == IF VsTry(ws, k, 2) # 0 THEN 2 ELSE 1
              g == VsTry(ws, k, g1)
              g2 == IF g + 1 <= n THEN 2 ELSE 1
          IN << JoinWords(SubSeq(ws, k, k + g1 - 1)),
                JoinWords(SubSeq(ws, g, g + g2 - 1)) >>
             \o VsMatches(ws, g + g2)

\* the loop over knownSchools, from entry i on
RECURSIVE AddKnown(_, _, _)
AddKnown(schools, lowerMessage, i) ==
  IF i > Len(knownSchools) THEN schools
  ELSE LET school == knownSchools[i]
           add == /\ Includes(lowerMessage, school)
                  /\ ~ \E x \in 1..Len(schools) : Includes(ToLower(schools[x]), school)
       IN AddKnown(IF add THEN Append(schools, school) ELSE schools,
                   lowerMessage, i + 1)

extractSchoolNames(message) ==
  LET ws == SplitWords(message)
      matched == UniOfMatches(ws, 1) \o UniMatches(ws, 1, 0) \o VsMatches(ws, 1)
  IN Dedupe(AddKnown(matched, ToLower(message), 1))

k_university_of_ ==
  << "u", "n", "i", "v", "e", "r", "s", "i", "t", "y", " ", "o", "f", " " >>
k_uc_ == <<"u", "c", " ">>
k__university == <<" ", "u", "n", "i", "v", "e", "r", "s", "i", "t", "y">>
k__college == <<" ", "c", "o", "l", "l", "e", "g", "e">>
N_UW ==
  << "U", "n", "i", "v", "e", "r", "s", "i", "t", "y", " ", "o", "f", " ",
     "W", "a", "s", "h", "i", "n", "g", "t", "o", "n" >>
N_Brown ==
  << "B", "r", "o", "w", "n", " ", "U", "n", "i", "v", "e", "r", "s", "i",
     "t", "y" >>
N_Yale ==
  << "Y", "a", "l", "e", " ", "U", "n", "i", "v", "e", "r", "s", "i", "t",
     "y" >>
N_PennState == <<"P", "e", "n", "n", " ", "S", "t", "a", "t", "e">>
N_Penn == <<"P", "e", "n", "n">>
N_WashU ==
  << "W", "a", "s", "h", "i", "n", "g", "t", "o", "n", " ", "U", "n", "i",
     "v", "e", "r", "s", "i", "t", "y" >>
v_uw == <<"u", "w">>
v_brown == <<"b", "r", "o", "w", "n">>
v_yale == <<"y", "a", "l", "e">>
v_penn_state == <<"p", "e", "n", "n", "-", "s", "t", "a", "t", "e">>
v_penn == <<"p", "e", "n", "n">>
v_washu == <<"w", "a", "s", "h", "u">>
scholarshipKeywords ==
  << <<"s", "c", "h", "o", "l", "a", "r", "s", "h", "i", "p">>,
     <<"s", "c", "h", "o", "l", "a", "r", "s", "h", "i", "p", "s">>,
     <<"f", "i", "n", "a", "n", "c", "i", "a", "l", " ", "a", "i", "d">>,
     <<"m", "e", "r", "i", "t", " ", "a", "i", "d">>,
     <<"g", "r", "a", "n", "t">>,
     <<"g", "r", "a", "n", "t", "s">>,
     <<"f", "u", "n", "d", "i", "n", "g">>,
     <<"t", "u", "i", "t", "i", "o", "n", " ", "a", "s", "s", "i", "s", "t", "a", "n", "c", "e">> >>
-----------------------------------------------------------------------------
(* Catalog resolution and the record fetcher.                              *)

\* s without the prefix p (String.replace of an anchored ^p pattern)
StripPrefix(s, p) == IF StartsWith(s, p) THEN SubSeq(s, Len(p) + 1, Len(s)) ELSE s

\* s without the suffix p (String.replace of an anchored p$ pattern)
StripSuffix(s, p) == IF EndsWith(s, p) THEN SubSeq(s, 1, Len(s) - Len(p)) ELSE s

NormalizeName(collegeName) ==
  Trim(StripSuffix(StripSuffix(StripPrefix(StripPrefix(
         Trim(ToLower(collegeName)), k_university_of_), k_uc_),
         k__university), k__college))

\* the test of one catalog entry in the loop of findCollegeId
EntryMatches(college, normalizedName) ==
  LET label == ToLower(college.label)
      value == ToLower(college.value)
  IN \/ label = normalizedName \/ value = normalizedName
     \/ Includes(label, normalizedName) \/ Includes(normalizedName, label)
     \/ Includes(value, normalizedName) \/ Includes(normalizedName, value)

\* value of the first catalog entry that matches, <<>> for null
findCollegeId(collegeName) ==
  LET normalizedName == NormalizeName(collegeName)
      hits == {i \in 1..Len(collegeList) : EntryMatches(collegeList[i], normalizedName)}
  IN IF hits = {} THEN <<>> ELSE collegeList[Min(hits)].value

\* data.Institution || data.A_General_Information?...Name_of_College_University || ''
InstitutionOf(doc) == IF doc.Institution # <<>> THEN doc.Institution ELSE doc.Name

\* the test of one document in the loop of fetchCollegeCDS
DocMatches(doc, normalizedName) ==
  LET institution == ToLower(InstitutionOf(doc))
  IN \/ Includes(institution, normalizedName)
     \/ Includes(normalizedName, FirstWord(institution))

\* index in docs of the document fetchCollegeCDS returns, 0 for null
fetchCollegeCDS(collegeName) ==
  LET normalizedName == Trim(ToLower(collegeName))
      hits == {i \in 1..Len(docs) : DocMatches(docs[i], normalizedName)}
  IN IF hits = {} THEN 0 ELSE Min(hits)

\* normalizedSearch.replace(/\s+/g, '-') on a single-spaced string
Dashed(s) == [i \in 1..Len(s) |-> IF s[i] = " " THEN "-" ELSE s[i]]

\* the filter of the fallback scan of fetchCollegeScholarships
ScholarshipMatches(data, collegeName) ==
  LET normalizedSearch == ToLower(collegeName)
      docCollegeName == ToLower(data.collegeName)
      docCollegeId == ToLower(data.collegeId)
  IN \/ Includes(docCollegeName, normalizedSearch)
     \/ Includes(normalizedSearch, FirstWord(docCollegeName))
     \/ Includes(docCollegeId, Dashed(normalizedSearch))

\* the scholarship documents fetchCollegeScholarships returns when no read throws
fetchCollegeScholarships(collegeName) ==
  LET collegeId == findCollegeId(collegeName)
      byId == SelectSeq(scholarshipDocs, LAMBDA d : d.collegeId = collegeId)
  IN IF collegeId # <<>> /\ byId # <<>> THEN byId
     ELSE SelectSeq(scholarshipDocs, LAMBDA d : ScholarshipMatches(d, collegeName))

\* number of getDocs calls fetchCollegeScholarships issues
ScholarshipReads(collegeName) ==
  LET collegeId == findCollegeId(collegeName)
  IN IF collegeId = <<>> THEN 1
     ELSE IF \E i \in 1..Len(scholarshipDocs) : scholarshipDocs[i].collegeId = collegeId
       THEN 1 ELSE 2

isAskingAboutScholarships(message) ==
  \E i \in 1..Len(scholarshipKeywords) : Includes(ToLower(message), scholarshipKeywords[i])

k_429 == <<"4", "2", "9">>
k_quota == <<"q", "u", "o", "t", "a">>
RateLimitMessage ==
  << "R", "a", "t", "e", " ", "l", "i", "m", "i", "t", " ", "e", "x", "c",
     "e", "e", "d", "e", "d", ".", " ", "P", "l", "e", "a", "s", "e", " ",
     "w", "a", "i", "t", " ", "a", " ", "m", "i", "n", "u", "t", "e", " ",
     "a", "n", "d", " ", "t", "r", "y", " ", "a", "g", "a", "i", "n", "." >>
UnknownError ==
  << "U", "n", "k", "n", "o", "w", "n", " ", "e", "r", "r", "o", "r" >>
MethodNotAllowed ==
  << "M", "e", "t", "h", "o", "d", " ", "n", "o", "t", " ", "a", "l", "l",
     "o", "w", "e", "d" >>
MessagesRequired ==
  << "M", "e", "s", "s", "a", "g", "e", "s", " ", "a", "r", "r", "a", "y",
     " ", "i", "s", " ", "r", "e", "q", "u", "i", "r", "e", "d" >>
Hello == <<"H", "e", "l", "l", "o">>
E_429 == <<"g", "o", "t", " ", "4", "2", "9">>
E_quota == <<"q", "u", "o", "t", "a", " ", "h", "i", "t">>
E_boom == <<"b", "o", "o", "m">>
F_a == <<"a">>
F_bold == <<"*", "*", "b", "*", "*">>
-----------------------------------------------------------------------------
(* The formatting stripper of the streaming loop.                          *)

\* length of the longest run of characters other than c that starts at index i
RECURSIVE RunLen(_, _, _)
RunLen(s, i, c) == IF i > Len(s) \/ s[i] = c THEN 0 ELSE 1 + RunLen(s, i + 1, c)

\* s.replace(/m([^c]+)m/g, '$1') from index i on, m being c repeated k times
RECURSIVE StripFrom(_, _, _, _)
StripFrom(s, i, c, k) ==
  IF i > Len(s) THEN <<>>
  ELSE LET m == [j \in 1..k |-> c]
           r == RunLen(s, i + k, c)
           hit == OccursAt(m, s, i) /\ r >= 1 /\ OccursAt(m, s, i + k + r)
       IN IF hit THEN SubSeq(s, i + k, i + k + r - 1) \o StripFrom(s, i + 2 * k + r, c, k)
          ELSE <<s[i]>> \o StripFrom(s, i + 1, c, k)

\* the four replacements, in the order of the code
StripFormatting(text) ==
  StripFrom(StripFrom(StripFrom(StripFrom(text, 1, "*", 2), 1, "*", 1), 1, "_", 2), 1, "_", 1)

-----------------------------------------------------------------------------
(* The request handler.                                                    *)

MaxSchools == 3

\* schools.slice(0) : the list without the limit
Slice3All(schools) == schools

\* schoolsToCompare.slice(0, 3)
Slice3(schools) == SubSeq(schools, 1, IF Len(schools) < MaxSchools THEN Len(schools) ELSE MaxSchools)

Messages == body.messages.items

\* messages[messages.length - 1]?.content || ''
LastUserMessage == IF Messages = <<>> THEN <<>> ELSE Messages[Len(Messages)].content

\* the test that decides whether context.collegeName is prepended
Represented(schools, collegeName) ==
  \E i \in 1..Len(schools) :
     \/ Includes(ToLower(schools[i]), FirstWord(ToLower(collegeName)))
     \/ Includes(ToLower(collegeName), ToLower(schools[i]))

\* schoolsToCompare after the unshift of the current-page college
WithContext(schools, collegeName) ==
  IF collegeName # <<>> /\ ~ Represented(schools, collegeName)
  THEN <<collegeName>> \o schools
  ELSE schools

InitRes == [status |-> 200, headersSent |-> FALSE, ended |-> FALSE,
            json |-> <<>>, events |-> <<>>]

\* res.status(code).json({error: text})
JsonError(code, text) ==
  [status |-> code, headersSent |-> TRUE, ended |-> TRUE,
   json |-> <<[error |-> text]>>, events |-> <<>>]

\* res.write(`data: ${JSON.stringify(event)}\n\n`)
Write(r, event) == [r EXCEPT !.headersSent = TRUE, !.events = Append(@, event)]

\* res.end()
End(r) == [r EXCEPT !.headersSent = TRUE, !.ended = TRUE]

ContentEvent(text) == [type |-> "content", text |-> text]
DoneEvent == [type |-> "done", text |-> <<>>]
ErrorEvent(text) == [type |-> "error", text |-> text]

\* error instanceof Error ? error.message : 'Unknown error'
ErrorMessageOf(error) == IF error.isError THEN error.message ELSE UnknownError

\* IsRateLimit without the test for "quota"
IsRateLimitOnly429(errorMessage) == Includes(errorMessage, k_429)

IsRateLimit(errorMessage) == Includes(errorMessage, k_429) \/ Includes(errorMessage, k_quota)

\* Catch without res.end() after the in-band error event
CatchNoEnd(r, error) ==
  LET errorMessage == ErrorMessageOf(error)
      isRateLimit == IsRateLimit(errorMessage)
      userMessage == IF isRateLimit THEN RateLimitMessage ELSE errorMessage
  IN IF ~ r.headersSent
     THEN JsonError(IF isRateLimit THEN 429 ELSE 500, userMessage)
     ELSE Write(r, ErrorEvent(userMessage))

\* the catch block of the handler
Catch(r, error) ==
  LET errorMessage == ErrorMessageOf(error)
      isRateLimit == IsRateLimit(errorMessage)
      userMessage == IF isRateLimit THEN RateLimitMessage ELSE errorMessage
  IN IF ~ r.headersSent
     THEN JsonError(IF isRateLimit THEN 429 ELSE 500, userMessage)
     ELSE End(Write(r, ErrorEvent(userMessage)))

\* CdsParts that also adds the note when only some of the schools have data
CdsPartsNoteWhenMissing(dataMap, schools, asking) ==
  (IF dataMap # <<>>
   THEN <<[kind |-> "cdsBegin", name |-> <<>>, doc |-> 0]>>
        \o [i \in 1..Len(dataMap) |->
              [kind |-> "cdsBlock",
               name |-> IF docs[dataMap[i].doc].Institution # <<>>
                        THEN docs[dataMap[i].doc].Institution
                        ELSE dataMap[i].school,
               doc |-> dataMap[i].doc]]
        \o <<[kind |-> "cdsEnd", name |-> <<>>, doc |-> 0]>>
   ELSE <<>>)
  \o (IF Len(dataMap) < Len(Slice3(schools)) /\ ~ asking
      THEN <<[kind |-> "noCdsNote", name |-> <<>>, doc |-> 0]>>
      ELSE <<>>)

\* the CDS part of the system prompt
CdsParts(dataMap, schools, asking) ==
  IF dataMap # <<>>
  THEN <<[kind |-> "cdsBegin", name |-> <<>>, doc |-> 0]>>
       \o [i \in 1..Len(dataMap) |->
             [kind |-> "cdsBlock",
              name |-> IF docs[dataMap[i].doc].Institution # <<>>
                       THEN docs[dataMap[i].doc].Institution
                       ELSE dataMap[i].school,
              doc |-> dataMap[i].doc]]
       \o <<[kind |-> "cdsEnd", name |-> <<>>, doc |-> 0]>>
  ELSE IF schools # <<>> /\ ~ asking
  THEN <<[kind |-> "noCdsNote", name |-> <<>>, doc |-> 0]>>
  ELSE <<>>

\* the scholarship part of the system prompt
ScholarshipParts(schMap, asking) ==
  IF asking /\ schMap # <<>>
  THEN <<[kind |-> "scholarshipBegin", name |-> <<>>, doc |-> 0]>>
       \o [i \in 1..Len(schMap) |->
             [kind |-> IF schMap[i].list = <<>> THEN "noScholarships" ELSE "scholarshipList",
              name |-> schMap[i].school,
              doc |-> Len(schMap[i].list)]]
       \o <<[kind |-> "scholarshipEnd", name |-> <<>>, doc |-> 0],
            [kind |-> "scholarshipFormat", name |-> <<>>, doc |-> 0]>>
  ELSE <<>>

\* the system prompt, as the sequence of its parts
ComposePrompt(collegeName, dataMap, schMap, schools, asking) ==
  <<[kind |-> "persona", name |-> <<>>, doc |-> 0]>>
  \o (IF collegeName # <<>>
      THEN <<[kind |-> "viewing", name |-> collegeName, doc |-> 0]>>
      ELSE <<>>)
  \o CdsParts(dataMap, schools, asking)
  \o ScholarshipParts(schMap, asking)

\* History without the slice: the newest message is part of it
HistoryAll(messages) ==
  [i \in 1..Len(messages) |->
     [role |-> IF messages[i].role = "user" THEN "user" ELSE "model",
      text |-> messages[i].content]]

\* messages.slice(0, -1).map(...)
History(messages) ==
  [i \in 1..(Len(messages) - 1) |->
     [role |-> IF messages[i].role = "user" THEN "user" ELSE "model",
      text |-> messages[i].content]]

\* the history given to model.startChat
SeedHistory(prompt, messages) ==
  <<[role |-> "user", text |-> Hello],
    [role |-> "model", text |-> prompt]>> \o History(messages)

\* values a model call or the fragment stream may throw
Thrown ==
  { [isError |-> TRUE, message |-> E_429],
    [isError |-> TRUE, message |-> E_quota],
    [isError |-> TRUE, message |-> E_boom],
    [isError |-> FALSE, message |-> <<>>] }

\* values of chunk.text()
Fragments == { <<>>, F_a, F_bold }

MaxFrags == 3

NoSession == [open |-> FALSE, history |-> <<>>, submitted |-> FALSE, message |-> <<>>]

\* if (req.method !== 'POST') return res.status(405).json(...)
Reject405 ==
  /\ pc = "start"
  /\ method # "POST"
  /\ res' = JsonError(405, MethodNotAllowed)
  /\ pc' = "rejected"
  /\ UNCHANGED <<chat, assistantTurn, tasks, arg, ret, collegeList, method, body, docs, scholarshipDocs,
                 schoolsToCompare, idx, cdsDataMap, askingAboutScholarships,
                 scholarshipsMap, systemPrompt, session, received, storeReads,
                 caught>>

\* BadMessages without the test for an empty array
BadMessagesNoEmpty == body.messages.kind # "array"

\* !messages || !Array.isArray(messages) || messages.length === 0
BadMessages == body.messages.kind # "array" \/ body.messages.items = <<>>

Reject400 ==
  /\ pc = "start"
  /\ method = "POST"
  /\ BadMessages
  /\ res' = JsonError(400, MessagesRequired)
  /\ pc' = "rejected"
  /\ UNCHANGED <<chat, assistantTurn, tasks, arg, ret, collegeList, method, body, docs, scholarshipDocs,
                 schoolsToCompare, idx, cdsDataMap, askingAboutScholarships,
                 scholarshipsMap, systemPrompt, session, received, storeReads,
                 caught>>

\* the synchronous part up to the first document-store read
Accept ==
  /\ pc = "start"
  /\ method = "POST"
  /\ ~ BadMessages
  /\ schoolsToCompare' =
       WithContext(extractSchoolNames(LastUserMessage), body.context.collegeName)
  /\ askingAboutScholarships' = isAskingAboutScholarships(LastUserMessage)
  /\ idx' = 1
  /\ pc' = "fetchCDS"
  /\ UNCHANGED <<chat, assistantTurn, tasks, arg, ret, collegeList, method, body, docs, scholarshipDocs,
                 cdsDataMap, scholarshipsMap, systemPrompt, session, received,
                 res, storeReads,
                 caught>>

\* FetchCDS with a fetchCollegeCDS that lets the exception of a read escape
\* to the catch block of the handler
FetchCDSThrowFails ==
  /\ pc = "fetchCDS"
  /\ idx <= Len(Slice3(schoolsToCompare))
  /\ LET school == Slice3(schoolsToCompare)[idx]
     IN \E throws \in BOOLEAN :
          IF throws
          THEN /\ \E error \in Thrown :
                    /\ res' = Catch(res, error)
                    /\ caught' = <<error>>
               /\ pc' = "failed"
               /\ UNCHANGED <<cdsDataMap, idx>>
          ELSE LET cdsData == fetchCollegeCDS(school)
               IN /\ cdsDataMap' = IF cdsData # 0
                                   THEN Append(cdsDataMap, [school |-> school, doc |-> cdsData])
                                   ELSE cdsDataMap
                  /\ idx' = idx + 1
                  /\ UNCHANGED <<res, caught, pc>>
  /\ storeReads' = storeReads + 1
  /\ UNCHANGED <<chat, assistantTurn, tasks, arg, ret, collegeList, method, body, docs, scholarshipDocs,
                 schoolsToCompare, askingAboutScholarships, scholarshipsMap,
                 systemPrompt, session, received>>

\* one iteration of the CDS loop: await fetchCollegeCDS(school); a read that
\* throws is caught inside fetchCollegeCDS and yields null
FetchCDS ==
  /\ pc = "fetchCDS"
  /\ idx <= Len(Slice3(schoolsToCompare))
  /\ LET school == Slice3(schoolsToCompare)[idx]
     IN \E throws \in BOOLEAN :
          LET cdsData == IF throws THEN 0 ELSE fetchCollegeCDS(school)
          IN cdsDataMap' = IF cdsData # 0
                           THEN Append(cdsDataMap, [school |-> school, doc |-> cdsData])
                           ELSE cdsDataMap
  /\ storeReads' = storeReads + 1
  /\ idx' = idx + 1
  /\ UNCHANGED <<chat, assistantTurn, tasks, arg, ret, collegeList, method, body, docs, scholarshipDocs, pc,
                 schoolsToCompare, askingAboutScholarships, scholarshipsMap,
                 systemPrompt, session, received, res,
                 caught>>

\* end of the CDS loop
CDSDone ==
  /\ pc = "fetchCDS"
  /\ idx > Len(Slice3(schoolsToCompare))
  /\ pc' = "fetchScholarships"
  /\ idx' = 1
  /\ UNCHANGED <<chat, assistantTurn, tasks, arg, ret, collegeList, method, body, docs, scholarshipDocs,
                 schoolsToCompare, cdsDataMap, askingAboutScholarships,
                 scholarshipsMap, systemPrompt, session, received, res, storeReads,
                 caught>>

\* one iteration of the scholarship loop: await fetchCollegeScholarships(school);
\* a read that throws is caught inside it and yields []
FetchScholarships ==
  /\ pc = "fetchScholarships"
  /\ askingAboutScholarships
  /\ idx <= Len(Slice3(schoolsToCompare))
  /\ LET school == Slice3(schoolsToCompare)[idx]
     IN \E throws \in BOOLEAN :
          /\ scholarshipsMap' =
               Append(scholarshipsMap,
                      [school |-> school,
                       list |-> IF throws THEN <<>> ELSE fetchCollegeScholarships(school)])
          /\ storeReads' = storeReads + (IF throws THEN 1 ELSE ScholarshipReads(school))
  /\ idx' = idx + 1
  /\ UNCHANGED <<chat, assistantTurn, tasks, arg, ret, collegeList, method, body, docs, scholarshipDocs, pc,
                 schoolsToCompare, cdsDataMap, askingAboutScholarships,
                 systemPrompt, session, received, res,
                 caught>>

\* prompt composition, model.startChat and the three res.setHeader calls
OpenSession ==
  /\ pc = "fetchScholarships"
  /\ ~ askingAboutScholarships \/ idx > Len(Slice3(schoolsToCompare))
  /\ systemPrompt' = ComposePrompt(body.context.collegeName, cdsDataMap,
                                   scholarshipsMap, schoolsToCompare,
                                   askingAboutScholarships)
  /\ session' = [open |-> TRUE,
                 history |-> SeedHistory(systemPrompt', Messages),
                 submitted |-> FALSE, message |-> <<>>]
  /\ pc' = "send"
  /\ UNCHANGED <<chat, assistantTurn, tasks, arg, ret, collegeList, method, body, docs, scholarshipDocs,
                 schoolsToCompare, idx, cdsDataMap, askingAboutScholarships,
                 scholarshipsMap, received, res, storeReads,
                 caught>>

\* chat.sendMessageStream(lastMessage.content): the message is submitted and
\* the handler waits for the call to settle
SubmitMessage ==
  /\ pc = "send"
  /\ session' = [session EXCEPT !.submitted = TRUE,
                                !.message = LastUserMessage]
  /\ pc' = "awaitSend"
  /\ UNCHANGED <<chat, assistantTurn, tasks, arg, ret, collegeList, method, body, docs, scholarshipDocs,
                 schoolsToCompare, idx, cdsDataMap, askingAboutScholarships,
                 scholarshipsMap, systemPrompt, received, res, storeReads,
                 caught>>

\* the call resolves with a result whose stream is then iterated
SendResolved ==
  /\ pc = "awaitSend"
  /\ pc' = "stream"
  /\ UNCHANGED <<chat, assistantTurn, tasks, arg, ret, collegeList, method, body, docs, scholarshipDocs,
                 schoolsToCompare, idx, cdsDataMap, askingAboutScholarships,
                 scholarshipsMap, systemPrompt, session, received, res, storeReads,
                 caught>>

\* the call rejects: the catch block runs
SendRejected ==
  /\ pc = "awaitSend"
  /\ \E error \in Thrown : res' = Catch(res, error) /\ caught' = <<error>>
  /\ pc' = "failed"
  /\ UNCHANGED <<chat, assistantTurn, tasks, arg, ret, collegeList, method, body, docs, scholarshipDocs,
                 schoolsToCompare, idx, cdsDataMap, askingAboutScholarships,
                 scholarshipsMap, systemPrompt, session, received, storeReads>>

\* Forward putting the new event in front of the earlier ones
ForwardPrepend(r, text) ==
  IF text # <<>>
  THEN [r EXCEPT !.headersSent = TRUE,
                 !.events = <<ContentEvent(StripFormatting(text))>> \o @]
  ELSE r

\* the body of the for await loop for a chunk whose text() is `text`
Forward(r, text) ==
  IF text # <<>> THEN Write(r, ContentEvent(StripFormatting(text))) ELSE r

\* the stream yields one chunk
StreamChunk ==
  /\ pc = "stream"
  /\ Len(received) < MaxFrags
  /\ \E text \in Fragments :
       /\ received' = Append(received, text)
       /\ res' = Forward(res, text)
  /\ UNCHANGED <<chat, assistantTurn, tasks, arg, ret, collegeList, method, body, docs, scholarshipDocs, pc,
                 schoolsToCompare, idx, cdsDataMap, askingAboutScholarships,
                 scholarshipsMap, systemPrompt, session, storeReads,
                 caught>>

\* Finish without the terminal event
FinishNoDone(r) == End(r)

\* what the handler does once the stream is exhausted
Finish(r) == End(Write(r, DoneEvent))

\* the stream ends
StreamEnd ==
  /\ pc = "stream"
  /\ res' = Finish(res)
  /\ pc' = "completed"
  /\ UNCHANGED <<chat, assistantTurn, tasks, arg, ret, collegeList, method, body, docs, scholarshipDocs,
                 schoolsToCompare, idx, cdsDataMap, askingAboutScholarships,
                 scholarshipsMap, systemPrompt, session, received, storeReads,
                 caught>>

\* StreamRaise that sends the message again instead of running the catch block
StreamRaiseRetry ==
  /\ pc = "stream"
  /\ \E error \in Thrown : caught' = <<error>>
  /\ pc' = "send"
  /\ UNCHANGED <<chat, assistantTurn, tasks, arg, ret, collegeList, method, body, docs, scholarshipDocs,
                 schoolsToCompare, idx, cdsDataMap, askingAboutScholarships,
                 scholarshipsMap, systemPrompt, session, received, res,
                 storeReads>>

\* the stream (or chunk.text()) throws: the catch block runs
StreamRaise ==
  /\ pc = "stream"
  /\ \E error \in Thrown : res' = Catch(res, error) /\ caught' = <<error>>
  /\ pc' = "failed"
  /\ UNCHANGED <<chat, assistantTurn, tasks, arg, ret, collegeList, method, body, docs, scholarshipDocs,
                 schoolsToCompare, idx, cdsDataMap, askingAboutScholarships,
                 scholarshipsMap, systemPrompt, session, received, storeReads>>

\* a chat component that is not mounted
NoChat == [component |-> "none", messages |-> <<>>, input |-> <<>>,
           isLoading |-> FALSE, requests |-> <<>>, sent |-> <<>>]

\* the assistant turn before the client has finished reading the response
NoTurn == [done |-> FALSE, component |-> "none", content |-> <<>>, caught |-> FALSE]

Apology ==
  << "S", "o", "r", "r", "y", ",", " ", "I", " ", "e", "n", "c", "o",
     "u", "n", "t", "e", "r", "e", "d", " ", "a", "n", " ", "e", "r",
     "r", "o", "r", ".", " ", "P", "l", "e", "a", "s", "e", " ", "t",
     "r", "y", " ", "a", "g", "a", "i", "n", "." >>
FailedToGet ==
  << "F", "a", "i", "l", "e", "d", " ", "t", "o", " ", "g", "e", "t",
     " ", "r", "e", "s", "p", "o", "n", "s", "e" >>

\* the two components that call the chat endpoint
Components == { "AIChatDrawer", "ChatPage" }

\* response.ok
Ok(response) == response.status \in 200..299

\* the loop over the "data: " lines of a streamed response, from event i on:
\* content is appended; the Error thrown for an {error} event is caught by
\* the try around JSON.parse, which ignores it
RECURSIVE ReadEvents(_, _, _)
ReadEvents(events, i, assistantContent) ==
  IF i > Len(events) THEN assistantContent
  ELSE IF events[i].type = "content" /\ events[i].text # <<>>
    THEN ReadEvents(events, i + 1, assistantContent \o events[i].text)
  ELSE ReadEvents(events, i + 1, assistantContent)

\* the assistant turn sendMessage leaves for a response; caught tells that
\* the outer catch block has written it
sendMessage(component, response) ==
  IF ~ Ok(response)
  THEN LET message == IF response.json # <<>> /\ response.json[1].error # <<>>
                      THEN response.json[1].error ELSE FailedToGet
       IN [content |-> IF component = "AIChatDrawer" THEN Apology ELSE message,
           caught |-> TRUE]
  ELSE [content |-> ReadEvents(response.events, 1, <<>>), caught |-> FALSE]

\* the client has read the whole response
ClientShow ==
  /\ res.ended
  /\ ~ assistantTurn.done
  /\ \E component \in Components :
       assistantTurn' = [done |-> TRUE, component |-> component,
                 content |-> sendMessage(component, res).content,
                 caught |-> sendMessage(component, res).caught]
  /\ UNCHANGED <<chat, tasks, arg, ret, collegeList, method, body, docs, scholarshipDocs, pc,
                 schoolsToCompare, idx, cdsDataMap, askingAboutScholarships,
                 scholarshipsMap, systemPrompt, session, received, res, storeReads,
                 caught>>

-----------------------------------------------------------------------------
(* Inputs.                                                                 *)

MaxMsgs == 3

M_Fooville == JoinWords(<<W_Compare, W_Fooville, W_University, W_vs, W_Brown>>)
M_YaleBrown == JoinWords(<<W_Compare, W_Yale, W_vs, W_Brown, W_tuition>>)
M_Scholarship == JoinWords(<<W_Brown, W_scholarship>>)
M_Four == JoinWords(<<W_yale, W_brown, W_harvard, W_washington>>)

\* contents of the newest message
LastMessages == { M_Fooville, M_YaleBrown, M_Scholarship, W_hi }

PriorTurns == { [role |-> "user", content |-> W_hi],
                [role |-> "assistant", content |-> W_ok] }

SeqsUpTo(S, n) == UNION { [1..k -> S] : k \in 0..n }

MessageLists ==
  { prior \o <<[role |-> "user", content |-> c]>> :
      prior \in SeqsUpTo(PriorTurns, MaxMsgs - 1), c \in LastMessages }

GoodBodies ==
  { [messages |-> [kind |-> "array", items |-> ms], context |-> [collegeName |-> cn]] :
      ms \in MessageLists, cn \in { <<>>, N_Brown } }

\* requests sent from the page of a college: the newest message and the
\* current-page college of the context
PageBodies ==
  { [messages |-> [kind |-> "array", items |-> <<[role |-> "user", content |-> p[1]]>>],
     context |-> [collegeName |-> p[2]]] :
      p \in { <<W_scholarship, N_Brown>>, <<M_Four, N_UW>> } }

BadBodies ==
  { [messages |-> [kind |-> k, items |-> <<>>], context |-> [collegeName |-> <<>>]] :
      k \in { "missing", "string", "array" } }

Doc(id, institution, name) == [id |-> id, Institution |-> institution, Name |-> name]

D_Brown == Doc("d-brown", N_Brown, <<>>)
D_UW == Doc("d-uw", <<>>, N_UW)
D_Yale == Doc("d-yale", N_Yale, <<>>)

Sch(id, collegeId, collegeName) == [id |-> id, collegeId |-> collegeId, collegeName |-> collegeName]

\* the two collections of the document store
Stores ==
  { [docs |-> <<>>, scholarships |-> <<>>],
    [docs |-> <<D_Brown>>, scholarships |-> <<Sch("s1", v_brown, N_Brown)>>],
    [docs |-> <<D_UW, D_Brown>>, scholarships |-> <<>>],
    [docs |-> <<D_UW>>, scholarships |-> <<Sch("s2", v_uw, N_UW)>>] }

\* the stores a request body is run against: every store for a request sent
\* from the page of a college, the stores that hold Brown or nothing otherwise
StoresOf(b) ==
  IF b.context.collegeName # <<>> /\ Len(b.messages.items) = 1
  THEN Stores
  ELSE { store \in Stores : store.docs = <<>> \/ store.docs[Len(store.docs)] = D_Brown }

Entry(label, value) == [label |-> label, value |-> value]

HandlerCatalog == << Entry(N_Yale, v_yale), Entry(N_Brown, v_brown) >>

NoArg == [op |-> "none", text |-> <<>>]
NoRet == [done |-> FALSE, value |-> <<>>]

\* the handler's variables before a request
HandlerInit ==
  /\ pc = "start"
  /\ schoolsToCompare = <<>>
  /\ idx = 0
  /\ cdsDataMap = <<>>
  /\ askingAboutScholarships = FALSE
  /\ scholarshipsMap = <<>>
  /\ systemPrompt = <<>>
  /\ session = NoSession
  /\ received = <<>>
  /\ res = InitRes
  /\ storeReads = 0
  /\ caught = <<>>
  /\ assistantTurn = NoTurn

Init ==
  /\ arg = NoArg
  /\ ret = NoRet
  /\ collegeList = HandlerCatalog
  /\ \/ method \in { "GET", "PUT" } /\ body \in BadBodies
     \/ method = "POST" /\ body \in BadBodies \cup GoodBodies \cup PageBodies
  /\ \E store \in StoresOf(body) : docs = store.docs /\ scholarshipDocs = store.scholarships
  /\ HandlerInit
  /\ tasks = <<>>
  /\ chat = NoChat

Next ==
  \/ Reject405
  \/ Reject400
  \/ Accept
  \/ FetchCDS
  \/ CDSDone
  \/ FetchScholarships
  \/ OpenSession
  \/ SubmitMessage
  \/ SendResolved
  \/ SendRejected
  \/ StreamChunk
  \/ StreamEnd
  \/ StreamRaise
  \/ ClientShow

Spec == Init /\ [][Next]_vars

\* once the session is open the event loop runs the handler's continuations:
\* the message is submitted, the call settles, and the fragment sequence
\* ends unless it raises
FairSpec ==
  /\ Spec
  /\ WF_vars(SubmitMessage)
  /\ WF_vars(SendResolved)
  /\ WF_vars(StreamEnd)

-----------------------------------------------------------------------------
(* The entity extractor and the catalog resolution, applied to inputs.     *)

MaxWords == 4

ResolverVocab == { W_Compare, W_Yale, W_yale, W_vs, W_versus, W_Brown, W_tuition,
                   W_University }

ResolverInputs ==
  { JoinWords(ws) : ws \in UNION { [1..k -> ResolverVocab] : k \in 1..MaxWords } }
  \cup { M_YaleBrown, M_Fooville }

HandlerOff ==
  /\ method = "POST"
  /\ body \in { b \in BadBodies : b.messages.kind = "missing" }
  /\ docs = <<>>
  /\ scholarshipDocs = <<>>
  /\ HandlerInit
  /\ tasks = <<>>
  /\ chat = NoChat

InitResolver ==
  /\ arg \in { [op |-> "extract", text |-> m] : m \in ResolverInputs }
  /\ ret = NoRet
  /\ collegeList = HandlerCatalog
  /\ HandlerOff

RunExtract ==
  /\ arg.op = "extract"
  /\ ~ ret.done
  /\ ret' = [done |-> TRUE, value |-> extractSchoolNames(arg.text)]
  /\ UNCHANGED <<chat, assistantTurn, tasks, arg, collegeList, method, body, docs, scholarshipDocs, pc,
                 schoolsToCompare, idx, cdsDataMap, askingAboutScholarships,
                 scholarshipsMap, systemPrompt, session, received, res, storeReads,
                 caught>>

SpecResolver == InitResolver /\ [][RunExtract]_vars

MaxCatalog == 3

CatalogPool == { Entry(N_UW, v_uw), Entry(N_WashU, v_washu), Entry(N_Brown, v_brown),
                 Entry(N_PennState, v_penn_state), Entry(N_Penn, v_penn) }

\* catalogs: sequences of distinct entries
Catalogs ==
  { c \in UNION { [1..k -> CatalogPool] : k \in 1..MaxCatalog } :
      \A i, j \in 1..Len(c) : i # j => c[i] # c[j] }

InitCatalog ==
  /\ collegeList \in Catalogs
  /\ arg \in { [op |-> "find", text |-> e.label] : e \in CatalogPool }
  /\ ret = NoRet
  /\ HandlerOff

RunFind ==
  /\ arg.op = "find"
  /\ ~ ret.done
  /\ ret' = [done |-> TRUE, value |-> findCollegeId(arg.text)]
  /\ UNCHANGED <<chat, assistantTurn, tasks, arg, collegeList, method, body, docs, scholarshipDocs, pc,
                 schoolsToCompare, idx, cdsDataMap, askingAboutScholarships,
                 scholarshipsMap, systemPrompt, session, received, res, storeReads,
                 caught>>

SpecCatalog == InitCatalog /\ [][RunFind]_vars

-----------------------------------------------------------------------------
(* Properties of the request handler.                                      *)

Terminal == pc \in { "rejected", "completed", "failed" }

\* indices of the terminal events ({done:true} or {error}) of the response
TerminalEvents == { i \in 1..Len(res.events) : res.events[i].type \in { "done", "error" } }

\* the response is an event stream: status 200 and no JSON body
IsStream == res.status = 200 /\ res.json = <<>>

\* C1: the body of a streaming (HTTP 200) response is zero or more {content}
\* events followed by exactly one terminal event, {done:true} when the
\* fragment sequence ended and {error} when it raised; it never holds both,
\* and nothing is written after the terminal event.
C1_StreamShape ==
  /\ res.events # <<>> => IsStream
  /\ Cardinality(TerminalEvents) <= 1
  /\ \A i \in TerminalEvents : i = Len(res.events) /\ res.ended
  /\ (pc = "completed") =>
        /\ IsStream
        /\ TerminalEvents # {}
        /\ res.events[Len(res.events)].type = "done"
  /\ (pc = "failed" /\ IsStream) =>
        /\ TerminalEvents # {}
        /\ res.events[Len(res.events)].type = "error"

\* a completed stream with two content events before its terminal event
C1_Witness ==
  /\ pc = "completed"
  /\ Len(res.events) = 3
  /\ res.events[3].type = "done"

\* the texts of the {content} events written so far, in order
ContentTexts ==
  LET ev == SelectSeq(res.events, LAMBDA e : e.type = "content")
  IN [i \in 1..Len(ev) |-> ev[i].text]

\* the non-empty fragments the model has yielded so far, in order
NonEmptyReceived == SelectSeq(received, LAMBDA f : f # <<>>)

\* C2: in every state of a session the {content} events written are, one for
\* one and in the same order, the non-empty fragments the model has yielded
\* so far (each passed through the formatting stripper): nothing is
\* reordered, duplicated, merged or held back.
C2_FragmentOrder ==
  /\ Len(ContentTexts) = Len(NonEmptyReceived)
  /\ \A i \in 1..Len(ContentTexts) : ContentTexts[i] = StripFormatting(NonEmptyReceived[i])

\* two different non-empty fragments forwarded while the stream is still open
C2_Witness ==
  /\ pc = "stream"
  /\ Len(ContentTexts) = 2
  /\ ContentTexts[1] # ContentTexts[2]

\* C3: when the model call or the fragment stream raises before any byte was
\* sent, the answer is a JSON error with status 429 if the error text has
\* "429" or "quota" in it and 500 otherwise; when it raises after bytes were
\* sent, the status stays 200 and the error is one in-band {error} event,
\* after which the stream is closed.
C3_ErrorReport ==
  (pc = "failed") =>
     LET error == caught[1]
         text == IF error.isError THEN error.message ELSE UnknownError
         limited == Includes(text, k_429) \/ Includes(text, k_quota)
         shown == IF limited THEN RateLimitMessage ELSE text
     IN IF ContentTexts = <<>>
        THEN /\ res.status = (IF limited THEN 429 ELSE 500)
             /\ res.json = <<[error |-> shown]>>
             /\ res.events = <<>>
             /\ res.ended
        ELSE /\ res.status = 200
             /\ res.json = <<>>
             /\ res.events[Len(res.events)] = ErrorEvent(shown)
             /\ Cardinality(TerminalEvents) = 1
             /\ res.ended

\* a quota error before any byte, answered with 429
C3_Witness ==
  /\ pc = "failed"
  /\ caught = <<[isError |-> TRUE, message |-> E_quota]>>
  /\ res.status = 429
  /\ received # <<>>

\* C4: no terminal state of the handler leaves the response open, and once
\* the stream has started the response is eventually closed.
C4_StreamClosed ==
  /\ [](Terminal => res.ended)
  /\ (res.events # <<>>) ~> res.ended

\* a stream that failed after content was sent, and is closed
C4_Witness ==
  /\ pc = "failed"
  /\ ContentTexts # <<>>
  /\ res.ended

\* C5: a request that is not a POST is answered with 405, a POST whose
\* messages field is missing, not an array or empty with 400 and
\* {error: "Messages array is required"}; such a request never reads the
\* document store, opens a model session or writes a stream event.
C5_Rejection ==
  LET notPost == method # "POST"
      noMessages == body.messages.kind # "array" \/ Len(body.messages.items) = 0
  IN (notPost \/ noMessages) =>
       /\ storeReads = 0
       /\ ~ session.open
       /\ res.events = <<>>
       /\ pc \in { "start", "rejected" }
       /\ (pc = "rejected" /\ notPost) =>
             res.status = 405 /\ res.json = <<[error |-> MethodNotAllowed]>> /\ res.ended
       /\ (pc = "rejected" /\ ~ notPost) =>
             res.status = 400 /\ res.json = <<[error |-> MessagesRequired]>> /\ res.ended

\* a POST with an empty messages array, rejected
C5_Witness ==
  /\ pc = "rejected"
  /\ method = "POST"
  /\ body.messages.kind = "array"
  /\ res.status = 400

\* the state of the per-request state machine; a request rejected at
\* validation is answered in Idle and never enters the machine
Phase ==
  CASE pc \in { "start", "rejected" } -> "Idle"
    [] pc \in { "fetchCDS", "fetchScholarships" } -> "ResolvingContext"
    [] pc = "send" -> "SessionOpen"
    [] pc \in { "awaitSend", "stream" } -> "Streaming"
    [] pc = "completed" -> "Completed"
    [] pc = "failed" -> "Failed"

Chain ==
  { <<"Idle", "ResolvingContext">>, <<"ResolvingContext", "SessionOpen">>,
    <<"SessionOpen", "Streaming">>, <<"Streaming", "Completed">>,
    <<"Streaming", "Failed">> }

\* C6: every step of a request keeps its state or moves along
\* Idle -> ResolvingContext -> SessionOpen -> Streaming -> {Completed | Failed}
\* (so Completed and Failed are terminal); once the session is open the
\* fetch loops are over, the prompt is composed and neither a store read nor
\* a change of the prompt follows; no event is written before the session
\* is open and the message submitted.
C6_StateMachine ==
  /\ [][Phase' = Phase \/ <<Phase, Phase'>> \in Chain]_vars
  /\ [](session.open =>
          /\ Phase \notin { "Idle", "ResolvingContext" }
          /\ session.history[2].text = systemPrompt)
  /\ [][session.open => storeReads' = storeReads /\ systemPrompt' = systemPrompt]_vars
  /\ [](res.events # <<>> => session.open /\ session.submitted)
  /\ [](Phase \in { "Completed", "Failed" } => res.ended)

\* a request that read the store, streamed content and then failed
C6_Witness ==
  /\ Phase = "Failed"
  /\ storeReads > 0
  /\ ContentTexts # <<>>

\* C7: the session of a request with messages m1..mn is opened with the
\* history <<synthetic user turn, synthetic model turn carrying the system
\* prompt, m1, ..., m(n-1)>>, the order and the roles of m1..m(n-1) kept
\* (assistant becomes model); mn is the message submitted and is not part
\* of the history.
C7_SeededHistory ==
  session.open =>
    LET n == Len(body.messages.items)
        h == session.history
    IN /\ Len(h) = n + 1
       /\ h[1].role = "user"
       /\ h[2].role = "model"
       /\ h[2].text = systemPrompt
       /\ systemPrompt # <<>>
       /\ \A i \in 1..(n - 1) :
            /\ h[i + 2].text = body.messages.items[i].content
            /\ h[i + 2].role =
                 (IF body.messages.items[i].role = "assistant" THEN "model" ELSE "user")
       /\ session.submitted => session.message = body.messages.items[n].content

\* a submitted message after two prior turns of different roles
C7_Witness ==
  /\ session.submitted
  /\ Len(body.messages.items) = 3
  /\ body.messages.items[1].role = "assistant"
  /\ body.messages.items[2].role = "user"

\* Properties of the prompt composer.

\* the newest message names two institutions and one of them has fetched data
OneOfTwoMatched ==
  /\ session.open
  /\ Len(schoolsToCompare) = 2
  /\ Len(cdsDataMap) = 1

PartsOfKind(kind) == { i \in 1..Len(systemPrompt) : systemPrompt[i].kind = kind }

-----------------------------------------------------------------------------
(* Properties of the entity extractor and of the catalog resolution.       *)

SchoolWords == { W_Yale, W_yale, W_Brown }

\* C8 as stated: for a message with "X vs Y" or "X versus Y" the candidate
\* list holds X and Y themselves, X before Y; for "Compare Yale vs Brown
\* tuition" it is <<"Yale", "Brown">>.
C8_VsCandidates ==
  ret.done =>
    LET ws == SplitWords(arg.text)
        out == ret.value
    IN /\ \A c \in 2..(Len(ws) - 1) :
            ( /\ ToLower(ws[c]) \in { k_vs, k_versus }
              /\ ws[c - 1] \in SchoolWords
              /\ ws[c + 1] \in SchoolWords
              /\ ws[c - 1] # ws[c + 1] )
            => \E i, j \in 1..Len(out) :
                 i < j /\ out[i] = ws[c - 1] /\ out[j] = ws[c + 1]
       /\ arg.text = M_YaleBrown => out = <<W_Yale, W_Brown>>

\* C9 as stated: resolving the exact label of a catalog entry yields the
\* key of that entry, whatever precedes it in the catalog.
C9_LabelIdentity ==
  ret.done =>
    \A i \in 1..Len(collegeList) :
      collegeList[i].label = arg.text => ret.value = collegeList[i].value


-----------------------------------------------------------------------------
(* Properties of the scholarship part of the prompt.                       *)

\* the scholarship records stored for an institution: those that carry its
\* catalog key or its name
StoredScholarships(school) ==
  SelectSeq(scholarshipDocs,
            LAMBDA d : \/ findCollegeId(school) # <<>> /\ d.collegeId = findCollegeId(school)
                       \/ ToLower(d.collegeName) = ToLower(school))

\* C11 as stated: when the newest message has scholarship intent and a
\* candidate institution has no stored scholarship record, the system prompt
\* holds the sentence "No scholarships found in our database for <name>" for
\* that institution, and no scholarship list for it.
C11_NoScholarshipsSentence ==
  (session.open /\ askingAboutScholarships) =>
    \A i \in 1..Len(Slice3(schoolsToCompare)) :
      LET school == schoolsToCompare[i]
      IN StoredScholarships(school) = <<>> =>
           /\ \E k \in PartsOfKind("noScholarships") : systemPrompt[k].name = school
           /\ ~ \E k \in PartsOfKind("scholarshipList") : systemPrompt[k].name = school


-----------------------------------------------------------------------------
(* formatCDSForPrompt: the admissions lines of the digest.                 *)

k_NA == <<"N", "/", "A">>
k_NaN == <<"N", "a", "N">>
k_Infinity == <<"I", "n", "f", "i", "n", "i", "t", "y">>
k_10_0 == <<"1", "0", ".", "0">>
k_0_0 == <<"0", ".", "0">>

\* a stored count: a number, or no field at all
Absent == [present |-> FALSE, n |-> 0]
Num(n) == [present |-> TRUE, n |-> n]

\* JavaScript truthiness of a count: undefined and 0 are falsy
Truthy(f) == f.present /\ f.n # 0

DigitChars == <<"0", "1", "2", "3", "4", "5", "6", "7", "8", "9">>

\* String(n) of a natural number
RECURSIVE Digits(_)
Digits(n) == IF n < 10 THEN <<DigitChars[n + 1]>>
             ELSE Digits(n \div 10) \o <<DigitChars[(n % 10) + 1]>>

\* the decimal text of t tenths
Tenths(t) == Digits(t \div 10) \o <<".">> \o <<DigitChars[(t % 10) + 1]>>

\* ((admitted / applied) * 100).toFixed(1) for positive counts
ToFixed1(admitted, applied) == Tenths((admitted * 2000 + applied) \div (2 * applied))

\* `${value || 'N/A'}`
OrNA(f) == IF Truthy(f) THEN Digits(f.n) ELSE k_NA

Line(label, text) == [label |-> label, text |-> text]

\* AcceptanceRateLine without the test of the two counts: the division runs
\* on whatever is stored
AcceptanceRateLineUnguarded(apps) ==
  LET rate == IF ~ apps.Total_applied.present \/ ~ apps.Total_admitted.present
                THEN k_NaN
              ELSE IF apps.Total_applied.n = 0
                THEN (IF apps.Total_admitted.n = 0 THEN k_NaN ELSE k_Infinity)
              ELSE ToFixed1(apps.Total_admitted.n, apps.Total_applied.n)
  IN <<Line("Acceptance Rate", rate \o <<"%">>)>>

\* if (apps.Total_applied && apps.Total_admitted) sections.push(`Acceptance Rate: ${rate}%`)
AcceptanceRateLine(apps) ==
  IF Truthy(apps.Total_applied) /\ Truthy(apps.Total_admitted)
  THEN <<Line("Acceptance Rate",
              ToFixed1(apps.Total_admitted.n, apps.Total_applied.n) \o <<"%">>)>>
  ELSE <<>>

\* the lines formatCDSForPrompt pushes for data.C_First_Time_First_Year_Admission
AdmissionsLines(admissions) ==
  IF admissions.hasC1
  THEN LET apps == admissions.C1_Applications
       IN <<Line("Applications", OrNA(apps.Total_applied)),
            Line("Admitted", OrNA(apps.Total_admitted))>>
          \o AcceptanceRateLine(apps)
          \o <<Line("Enrolled", OrNA(apps.Total_enrolled))>>
  ELSE <<>>

MaxCount == 4

\* stored values of a count
Counts == { Absent } \cup { Num(n) : n \in 0..MaxCount \cup { 16, 100, 1000, 3000 } }

DigestInputs ==
  { [hasC1 |-> TRUE,
     C1_Applications |-> [Total_applied |-> a, Total_admitted |-> b, Total_enrolled |-> e]] :
      a \in Counts, b \in Counts, e \in { Absent, Num(7) } }
  \cup { [hasC1 |-> FALSE,
          C1_Applications |-> [Total_applied |-> Absent, Total_admitted |-> Absent,
                               Total_enrolled |-> Absent]] }

InitDigest ==
  /\ arg \in { [op |-> "format", text |-> <<>>, admissions |-> d] : d \in DigestInputs }
  /\ ret = NoRet
  /\ collegeList = HandlerCatalog
  /\ HandlerOff

RunFormat ==
  /\ arg.op = "format"
  /\ ~ ret.done
  /\ ret' = [done |-> TRUE, value |-> AdmissionsLines(arg.admissions)]
  /\ UNCHANGED <<chat, assistantTurn, tasks, arg, collegeList, method, body, docs, scholarshipDocs, pc,
                 schoolsToCompare, idx, cdsDataMap, askingAboutScholarships,
                 scholarshipsMap, systemPrompt, session, received, res, storeReads,
                 caught>>

SpecDigest == InitDigest /\ [][RunFormat]_vars

\* the texts of the acceptance-rate lines of the result
RateTexts == { ret.value[i].text : i \in { j \in 1..Len(ret.value) : ret.value[j].label = "Acceptance Rate" } }

\* both counts are present and truthy
BothCounts ==
  /\ arg.admissions.hasC1
  /\ Truthy(arg.admissions.C1_Applications.Total_applied)
  /\ Truthy(arg.admissions.C1_Applications.Total_admitted)

\* text is admitted/applied*100 to the nearest tenth, followed by %
NearestTenth(text) ==
  LET app == arg.admissions.C1_Applications.Total_applied.n
      adm == arg.admissions.C1_Applications.Total_admitted.n
      f == (1000 * adm) \div app
  IN \E t \in { f, f + 1 } :
       /\ text = Tenths(t) \o <<"%">>
       /\ 2 * (1000 * adm - t * app) <= app
       /\ 2 * (t * app - 1000 * adm) <= app

\* C12 as stated: the digest has an acceptance-rate line exactly when both
\* counts are present and truthy; the line shows admitted/applied*100 rounded
\* to one decimal (1000 applied and 100 admitted give 10.0%); whatever the
\* stored counts, the line never shows a rate of zero or NaN.
C12_AcceptanceRate ==
  ret.done =>
    /\ (RateTexts # {}) <=> BothCounts
    /\ Cardinality(RateTexts) <= 1
    /\ \A text \in RateTexts :
         /\ NearestTenth(text)
         /\ text # k_NaN \o <<"%">>
         /\ text # k_0_0 \o <<"%">>
    /\ ( /\ arg.admissions.C1_Applications.Total_applied = Num(1000)
         /\ arg.admissions.C1_Applications.Total_admitted = Num(100) )
       => RateTexts = { k_10_0 \o <<"%">> }

\* C12 (amended): the digest has an acceptance-rate line exactly when both
\* counts are present and truthy; the line shows admitted/applied*100 rounded
\* to one decimal (1000 applied and 100 admitted give 10.0%); the line is
\* never NaN, and it reads 0.0% exactly when admitted is less than 0.05% of
\* applied.
C12_AcceptanceRateRounded ==
  ret.done =>
    /\ (RateTexts # {}) <=> BothCounts
    /\ Cardinality(RateTexts) <= 1
    /\ \A text \in RateTexts :
         /\ NearestTenth(text)
         /\ text # k_NaN \o <<"%">>
         /\ (text = k_0_0 \o <<"%">>)
              <=> (2000 * arg.admissions.C1_Applications.Total_admitted.n
                     < arg.admissions.C1_Applications.Total_applied.n)
    /\ ( /\ arg.admissions.C1_Applications.Total_applied = Num(1000)
         /\ arg.admissions.C1_Applications.Total_admitted = Num(100) )
       => RateTexts = { k_10_0 \o <<"%">> }

\* 1000 applied and 100 admitted: the digest shows 10.0%
C12_Witness ==
  /\ ret.done
  /\ arg.op = "format"
  /\ arg.admissions.C1_Applications.Total_applied = Num(1000)
  /\ arg.admissions.C1_Applications.Total_admitted = Num(100)
  /\ RateTexts = { k_10_0 \o <<"%">> }


-----------------------------------------------------------------------------
(* The response renderer: parseContent, parseTextAndTables, parseTable and *)
(* the block chosen by ChatMessage for each part.  The texts given to it   *)
(* do not contain "SCHOLARSHIP:", so that scholarshipPattern has no match. *)

k_scholarship_colon == <<"s", "c", "h", "o", "l", "a", "r", "s", "h", "i", "p", ":">>
k_amount_colon == <<"a", "m", "o", "u", "n", "t", ":">>
k_deadline_colon == <<"d", "e", "a", "d", "l", "i", "n", "e", ":">>
k_eligibility_colon == <<"e", "l", "i", "g", "i", "b", "i", "l", "i", "t", "y", ":">>
k_dashes == <<"-", "-", "-">>

\* s.split(c) for a one-character separator
RECURSIVE Split(_, _)
Split(s, c) ==
  LET at == {i \in 1..Len(s) : s[i] = c}
  IN IF at = {} THEN <<s>>
     ELSE <<SubSeq(s, 1, Min(at) - 1)>> \o Split(SubSeq(s, Min(at) + 1, Len(s)), c)

\* xs.join(c)
RECURSIVE Join(_, _)
Join(xs, c) ==
  IF xs = <<>> THEN <<>>
  ELSE IF Len(xs) = 1 THEN xs[1]
  ELSE xs[1] \o <<c>> \o Join(Tail(xs), c)

\* cell.match(/^-+$/)
IsDashes(cell) == cell # <<>> /\ \A i \in 1..Len(cell) : cell[i] = "-"

\* line.match(/^[\s|:-]+$/)
IsSeparatorLine(line) ==
  line # <<>> /\ \A i \in 1..Len(line) : line[i] \in WhiteSpace \cup { "|", ":", "-" }

\* line.split('|').map(cell => cell.trim())
Cells(line) == LET raw == Split(line, "|") IN [i \in 1..Len(raw) |-> Trim(raw[i])]

\* the header cells: empty cells and cells of dashes are dropped
HeaderCells(line) == SelectSeq(Cells(line), LAMBDA cell : cell # <<>> /\ ~ IsDashes(cell))

\* RowCells that also drops the empty cell a trailing | leaves
RowCellsTrimBoth(line) ==
  LET cells == Cells(line)
      lead == IF cells[1] = <<>> THEN Tail(cells) ELSE cells
      both == IF lead # <<>> /\ lead[Len(lead)] = <<>>
              THEN SubSeq(lead, 1, Len(lead) - 1) ELSE lead
  IN SelectSeq(both, LAMBDA cell : ~ IsDashes(cell))

\* the cells of a data row: the empty cell a leading | leaves is dropped,
\* then the cells of dashes
RowCells(line) ==
  LET cells == Cells(line)
      lead == IF cells[1] = <<>> THEN Tail(cells) ELSE cells
  IN SelectSeq(lead, LAMBDA cell : ~ IsDashes(cell))

\* the rows parseTable collects from tableLines[i..]
RECURSIVE TableRows(_, _)
TableRows(tableLines, i) ==
  IF i > Len(tableLines) THEN <<>>
  ELSE LET line == tableLines[i]
           rest == TableRows(tableLines, i + 1)
       IN IF IsSeparatorLine(line) THEN rest
          ELSE IF RowCells(line) # <<>> THEN <<RowCells(line)>> \o rest
          ELSE rest

NoTable == [ok |-> FALSE, headers |-> <<>>, rows |-> <<>>]

\* parseTable: ok is FALSE for null
parseTable(text) ==
  LET lines == Split(Trim(text), "\n")
      tableLines == SelectSeq(lines, LAMBDA line : Includes(line, <<"|">>))
  IN IF Len(lines) < 2 \/ Len(tableLines) < 2 THEN NoTable
     ELSE IF HeaderCells(tableLines[1]) = <<>> THEN NoTable
     ELSE IF TableRows(tableLines, 2) = <<>> THEN NoTable
     ELSE [ok |-> TRUE, headers |-> HeaderCells(tableLines[1]),
           rows |-> TableRows(tableLines, 2)]

Part(type, content) == [type |-> type, content |-> content]

\* TextPart that keeps the last line only
TextPartLastLine(lines) == Part("text", lines[Len(lines)])

\* { type: 'text', content: currentText.join('\n') }
TextPart(lines) == Part("text", Join(lines, "\n"))

\* the loop of parseTextAndTables from line i on, and the two pushes after it
RECURSIVE ScanLines(_, _, _, _, _, _)
ScanLines(lines, i, parts, currentText, currentTable, inTable) ==
  IF i > Len(lines)
  THEN parts
       \o (IF currentText # <<>> THEN <<TextPart(currentText)>> ELSE <<>>)
       \o (IF currentTable # <<>> THEN <<Part("table", Join(currentTable, "\n"))>> ELSE <<>>)
  ELSE LET line == lines[i]
           looksLikeTable == Includes(line, <<"|">>) /\ Trim(line) # <<>>
       IN IF looksLikeTable
          THEN IF ~ inTable /\ currentText # <<>>
               THEN ScanLines(lines, i + 1, Append(parts, TextPart(currentText)),
                              <<>>, Append(currentTable, line), TRUE)
               ELSE ScanLines(lines, i + 1, parts, currentText,
                              Append(currentTable, line), TRUE)
          ELSE IF inTable /\ currentTable # <<>>
               THEN ScanLines(lines, i + 1,
                              Append(parts, Part("table", Join(currentTable, "\n"))),
                              Append(currentText, line), <<>>, FALSE)
               ELSE ScanLines(lines, i + 1, parts, Append(currentText, line),
                              currentTable, FALSE)

parseTextAndTables(content) == ScanLines(Split(content, "\n"), 1, <<>>, <<>>, <<>>, FALSE)

\* content.split(/^---$/m): the lines between the lines that are exactly ---
RECURSIVE SplitAtDashes(_)
SplitAtDashes(lines) ==
  LET at == {i \in 1..Len(lines) : lines[i] = k_dashes}
  IN IF at = {} THEN <<lines>>
     ELSE <<SubSeq(lines, 1, Min(at) - 1)>>
          \o SplitAtDashes(SubSeq(lines, Min(at) + 1, Len(lines)))

Segments(content) ==
  LET groups == SplitAtDashes(Split(content, "\n"))
  IN [i \in 1..Len(groups) |-> Join(groups[i], "\n")]

\* /SCHOLARSHIP:/i.test(s) || (/Amount:/i.test(s) && (/Deadline:/i.test(s) || /Eligibility:/i.test(s)))
isScholarship(segment) ==
  LET l == ToLower(segment)
  IN \/ Includes(l, k_scholarship_colon)
     \/ /\ Includes(l, k_amount_colon)
        /\ Includes(l, k_deadline_colon) \/ Includes(l, k_eligibility_colon)

\* the parts the loop over the segments pushes, from segment i on
RECURSIVE SegmentParts(_, _)
SegmentParts(segments, i) ==
  IF i > Len(segments) THEN <<>>
  ELSE LET segment == Trim(segments[i])
           rest == SegmentParts(segments, i + 1)
       IN IF segment = <<>> THEN rest
          ELSE IF isScholarship(segment) THEN <<Part("scholarship", segment)>> \o rest
          ELSE parseTextAndTables(segment) \o rest

parseContent(content) ==
  LET parts == SegmentParts(Segments(content), 1)
  IN IF parts # <<>> THEN parts ELSE parseTextAndTables(content)

\* the element ChatMessage renders for one part
Block(part) ==
  IF part.type = "scholarship"
  THEN [type |-> "scholarship", content |-> part.content, headers |-> <<>>, rows |-> <<>>]
  ELSE IF part.type = "table"
  THEN LET tableData == parseTable(part.content)
       IN IF tableData.ok
          THEN [type |-> "table", content |-> part.content,
                headers |-> tableData.headers, rows |-> tableData.rows]
          ELSE [type |-> "pre", content |-> part.content, headers |-> <<>>, rows |-> <<>>]
  ELSE [type |-> "prose", content |-> part.content, headers |-> <<>>, rows |-> <<>>]

\* the blocks of ChatMessage; an empty content shows the loader only
ChatMessage(content) ==
  IF content = <<>> THEN <<>>
  ELSE LET parts == parseContent(content)
       IN [i \in 1..Len(parts) |-> Block(parts[i])]

L_a == <<"a">>
L_blank == <<>>
L_sp_a == <<" ", "a">>
L_fields == <<"A", "m", "o", "u", "n", "t", ":", " ", "1", " ", "D", "e", "a", "d", "l", "i", "n", "e", ":", " ", "2">>
L_h == <<"a", " ", "|", " ", "b">>
L_hp == <<"|", " ", "a", " ", "|", " ", "b", " ", "|">>
L_h0 == <<"|", " ", "|">>
L_s == <<"-", "-", "-", "|", "-", "-", "-">>
L_sp == <<"|", "-", "-", "-", "|", "-", "-", "-", "|">>
L_r2 == <<"1", " ", "|", " ", "2">>
L_r2p == <<"|", " ", "1", " ", "|", " ", "2", " ", "|">>
L_r3 == <<"1", " ", "|", " ", "2", " ", "|", " ", "3">>

MaxRows == 2
MaxLines == 3

HeaderLines == { L_h, L_hp }
SeparatorLines == { L_s, L_sp }
RowLines == { L_r2, L_r2p, L_r3 }
ProseLines == { L_a, L_blank, L_sp_a, L_fields, k_dashes }

\* a header row (or a row of empty cells in its place), a separator row and
\* up to MaxRows data rows, alone or after a line of prose
TableTexts ==
  { Join(pre \o <<h, sep>> \o rows, "\n") :
      pre \in { <<>>, <<L_a>> },
      h \in HeaderLines \cup { L_h0 },
      sep \in SeparatorLines,
      rows \in SeqsUpTo(RowLines, MaxRows) }

ProseTexts == { Join(ls, "\n") : ls \in SeqsUpTo(ProseLines, MaxLines) }

RenderInputs == TableTexts \cup ProseTexts \cup { L_h }

InitRender ==
  /\ arg \in { [op |-> "render", text |-> t] : t \in RenderInputs }
  /\ ret = NoRet
  /\ collegeList = HandlerCatalog
  /\ HandlerOff

RunRender ==
  /\ arg.op = "render"
  /\ ~ ret.done
  /\ ret' = [done |-> TRUE, value |-> ChatMessage(arg.text)]
  /\ UNCHANGED <<chat, assistantTurn, tasks, arg, collegeList, method, body, docs, scholarshipDocs, pc,
                 schoolsToCompare, idx, cdsDataMap, askingAboutScholarships,
                 scholarshipsMap, systemPrompt, session, received, res, storeReads,
                 caught>>

SpecRender == InitRender /\ [][RunRender]_vars


-----------------------------------------------------------------------------
(* Properties of the response renderer.                                    *)

\* a header row, a separator row and 2 data rows of as many cells, each
\* written with or without a leading and a trailing pipe
WellFormedTables ==
  { Join(<<h, sep, r1, r2>>, "\n") :
      h \in HeaderLines, sep \in SeparatorLines,
      r1 \in { L_r2, L_r2p }, r2 \in { L_r2, L_r2p } }

\* C13 as stated: a well-formed pipe table (header row, separator row, 2 data
\* rows, with or without leading and trailing pipes) is rendered as one
\* table block whose number of headers equals the number of cells of every
\* data row.
C13_TableColumns ==
  (ret.done /\ arg.op = "render" /\ arg.text \in WellFormedTables) =>
    /\ Len(ret.value) = 1
    /\ ret.value[1].type = "table"
    /\ Len(ret.value[1].rows) = 2
    /\ \A i \in 1..Len(ret.value[1].rows) :
         Len(ret.value[1].rows[i]) = Len(ret.value[1].headers)

\* a presumed table block is malformed: no header, no data row, or a data
\* row that is written with another number of cells than the header row
Malformed(content) ==
  LET lines == Split(Trim(content), "\n")
      tableLines == SelectSeq(lines, LAMBDA line : Includes(line, <<"|">>))
      headers == IF tableLines = <<>> THEN <<>> ELSE HeaderCells(tableLines[1])
      data == IF tableLines = <<>> THEN <<>>
              ELSE SelectSeq(Tail(tableLines), LAMBDA line : ~ IsSeparatorLine(line))
  IN \/ headers = <<>>
     \/ data = <<>>
     \/ \E i \in 1..Len(data) : Len(RowCellsTrimBoth(data[i])) # Len(headers)

\* C14 as stated: a presumed table block that is malformed (a data row whose
\* cell count differs from the header count, no data row, or no header) is
\* rendered as a preformatted text block and not as a table.
C14_MalformedDegrades ==
  (ret.done /\ arg.op = "render" /\ arg.text # <<>>) =>
    LET parts == parseContent(arg.text)
    IN /\ Len(ret.value) = Len(parts)
       /\ \A i \in 1..Len(parts) :
            (parts[i].type = "table" /\ Malformed(parts[i].content))
              => ret.value[i].type = "pre"

\* the text has no line that is exactly --- and no | character
PlainText(text) ==
  /\ ~ \E i \in 1..Len(Split(text, "\n")) : Split(text, "\n")[i] = k_dashes
  /\ ~ Includes(text, <<"|">>)

\* C15 as stated: a non-empty text with no --- line and no | is segmented
\* into exactly one block, of type prose, whose content equals the input
\* character for character.
C15_PlainTextOneBlock ==
  (ret.done /\ arg.op = "render" /\ arg.text # <<>> /\ PlainText(arg.text)) =>
    /\ Len(ret.value) = 1
    /\ ret.value[1].type = "prose"
    /\ ret.value[1].content = arg.text

\* C15 (amended): a non-empty text with no --- line, no | and no scholarship
\* fields is segmented into exactly one block, of type prose, whose content
\* equals the input with its leading and trailing white space removed (the
\* input itself when it is white space only).
C15_PlainTextTrimmed ==
  (ret.done /\ arg.op = "render" /\ arg.text # <<>> /\ PlainText(arg.text)
     /\ ~ isScholarship(arg.text)) =>
    /\ Len(ret.value) = 1
    /\ ret.value[1].type = "prose"
    /\ ret.value[1].content = IF Trim(arg.text) = <<>> THEN arg.text ELSE Trim(arg.text)

\* " a", "a" and an empty line: one prose block "a\na"
C15_Witness ==
  /\ ret.done
  /\ arg.op = "render"
  /\ arg.text = Join(<<L_sp_a, L_a, L_blank>>, "\n")
  /\ Len(ret.value) = 1
  /\ ret.value[1].type = "prose"
  /\ ret.value[1].content = Join(<<L_a, L_a>>, "\n")


-----------------------------------------------------------------------------
(* Properties of the client side of a request.                             *)

\* the request failed: an error status, or an {error} event in the stream
RequestFailed == ~ Ok(res) \/ \E i \in 1..Len(res.events) : res.events[i].type = "error"

\* C16 as stated: every failed chat request ends with an error message in
\* the assistant turn, for an error response (4xx or 5xx) and also for an
\* in-band {error} event that arrives after some content.
C16_ReadableError ==
  (assistantTurn.done /\ RequestFailed) =>
    /\ assistantTurn.caught
    /\ assistantTurn.content # <<>>
    /\ \A i \in 1..Len(res.events) :
         res.events[i].type = "error" =>
           assistantTurn.content \in { Apology, res.events[i].text }


-----------------------------------------------------------------------------
(* Further properties of the entity extractor and of the candidates.       *)

\* the names extractSchoolNames has pushed before duplicates are removed
Collected(message) ==
  LET ws == SplitWords(message)
  IN AddKnown(UniOfMatches(ws, 1) \o UniMatches(ws, 1, 0) \o VsMatches(ws, 1),
              ToLower(message), 1)

\* index of the first occurrence of x in xs
FirstAt(xs, x) == Min({ i \in 1..Len(xs) : xs[i] = x })

\* C17 as stated: the candidate list never has two entries that are equal
\* ignoring case, and its entries appear in first-seen order.
C17_DistinctCandidates ==
  (ret.done /\ arg.op = "extract") =>
    LET out == ret.value
        pushed == Collected(arg.text)
    IN /\ \A i, j \in 1..Len(out) : i < j => ToLower(out[i]) # ToLower(out[j])
       /\ \A i \in 1..Len(out) : \E k \in 1..Len(pushed) : pushed[k] = out[i]
       /\ \A i, j \in 1..Len(out) : i < j => FirstAt(pushed, out[i]) < FirstAt(pushed, out[j])

\* C18 as stated: whenever a current-page institution is supplied in the
\* request context, it is represented among the at most 3 candidates whose
\* records are fetched: it is the first of them, or one of them names it.
C18_ContextRepresented ==
  (pc \notin { "start", "rejected" } /\ body.context.collegeName # <<>>) =>
    \E i \in 1..Len(Slice3(schoolsToCompare)) :
      \/ schoolsToCompare[i] = body.context.collegeName
      \/ Represented(<<schoolsToCompare[i]>>, body.context.collegeName)

-----------------------------------------------------------------------------
(* The forwarding of one fragment, applied to every short fragment text.   *)

MaxFragLen == 6

FragmentChars == { "*", "_", "a" }

FragmentTexts == UNION { [1..k -> FragmentChars] : k \in 0..MaxFragLen }

InitForward ==
  /\ arg \in { [op |-> "forward", text |-> t] : t \in FragmentTexts }
  /\ ret = NoRet
  /\ collegeList = HandlerCatalog
  /\ HandlerOff

\* the events the loop body writes for a chunk whose text() is arg.text
RunForward ==
  /\ arg.op = "forward"
  /\ ~ ret.done
  /\ ret' = [done |-> TRUE, value |-> Forward(InitRes, arg.text).events]
  /\ UNCHANGED <<chat, assistantTurn, tasks, arg, collegeList, method, body, docs,
                 scholarshipDocs, pc, schoolsToCompare, idx, cdsDataMap,
                 askingAboutScholarships, scholarshipsMap, systemPrompt, session,
                 received, res, storeReads, caught>>

SpecForward == InitForward /\ [][RunForward]_vars

\* s contains a paired emphasis span: the marker (c once or twice), a
\* non-empty text free of c, and the marker again
HasSpan(s) ==
  \E c \in { "*", "_" }, k \in { 1, 2 }, i \in 1..Len(s) :
    LET marker == [j \in 1..k |-> c]
        r == RunLen(s, i + k, c)
    IN OccursAt(marker, s, i) /\ r >= 1 /\ OccursAt(marker, s, i + k + r)

\* C19 as stated: every fragment forwarded to the client has had its paired
\* emphasis markers removed: no forwarded {content} text contains a span of
\* the form **x**, *x*, __x__ or _x_.
C19_NoEmphasisSpan ==
  (ret.done /\ arg.op = "forward") =>
    \A i \in 1..Len(ret.value) :
      ret.value[i].type = "content" /\ ~ HasSpan(ret.value[i].text)

-----------------------------------------------------------------------------
(* Several requests handled as interleaved tasks.  Every invocation of the *)
(* handler has its own locals (a record of tasks); the catalog and the     *)
(* document store are the state the invocations share.  A task runs from   *)
(* one await to the next in one step.                                      *)

Requests == { 1, 2 }

MaxTaskFrags == 2

\* the variables of the single-request handler and of the function checks
HandlerVars == <<arg, ret, collegeList, method, body, docs, scholarshipDocs, pc,
                 schoolsToCompare, idx, cdsDataMap, askingAboutScholarships,
                 scholarshipsMap, systemPrompt, session, received, res, storeReads,
                 caught, assistantTurn, chat>>

\* the locals of an invocation before its first step
NewTask(b) ==
  [pc |-> "start", body |-> b, schoolsToCompare |-> <<>>, idx |-> 0,
   cdsDataMap |-> <<>>, askingAboutScholarships |-> FALSE, scholarshipsMap |-> <<>>,
   systemPrompt |-> <<>>, session |-> NoSession, received |-> <<>>, res |-> InitRes,
   caught |-> <<>>]

TaskBodies ==
  { [messages |-> [kind |-> "array", items |-> <<[role |-> "user", content |-> c]>>],
     context |-> [collegeName |-> <<>>]] : c \in { M_Scholarship, W_hi } }
  \cup { b \in BadBodies : b.messages.kind = "array" }

\* the fragments the model session of request r yields
TaskFragments(r) == { <<>>, IF r = 1 THEN F_a ELSE F_bold }

TaskThrown == { [isError |-> TRUE, message |-> E_boom] }

\* Target that makes every invocation write to the response of request 1
TargetFirst(r) == 1

\* the response an invocation writes to: its own parameter res
Target(r) == r

\* the messages check answers 400
TaskReject400(r) ==
  /\ tasks[r].pc = "start"
  /\ tasks[r].body.messages.kind # "array" \/ tasks[r].body.messages.items = <<>>
  /\ tasks' = [tasks EXCEPT ![r] =
       [@ EXCEPT !.res = JsonError(400, MessagesRequired), !.pc = "rejected"]]
  /\ UNCHANGED HandlerVars

\* the synchronous part up to the first document-store read
TaskAccept(r) ==
  /\ tasks[r].pc = "start"
  /\ tasks[r].body.messages.kind = "array" /\ tasks[r].body.messages.items # <<>>
  /\ LET content == tasks[r].body.messages.items[Len(tasks[r].body.messages.items)].content
     IN tasks' = [tasks EXCEPT ![r] =
          [@ EXCEPT !.schoolsToCompare =
                      WithContext(extractSchoolNames(content), tasks[r].body.context.collegeName),
                    !.askingAboutScholarships = isAskingAboutScholarships(content),
                    !.idx = 1,
                    !.pc = "fetchCDS"]]
  /\ UNCHANGED HandlerVars

\* one iteration of the CDS loop
TaskFetchCDS(r) ==
  /\ tasks[r].pc = "fetchCDS"
  /\ tasks[r].idx <= Len(Slice3(tasks[r].schoolsToCompare))
  /\ LET school == tasks[r].schoolsToCompare[tasks[r].idx]
         cdsData == fetchCollegeCDS(school)
     IN tasks' = [tasks EXCEPT ![r] =
          [@ EXCEPT !.cdsDataMap = IF cdsData # 0
                                   THEN Append(@, [school |-> school, doc |-> cdsData])
                                   ELSE @,
                    !.idx = @ + 1]]
  /\ UNCHANGED HandlerVars

\* end of the CDS loop
TaskCDSDone(r) ==
  /\ tasks[r].pc = "fetchCDS"
  /\ tasks[r].idx > Len(Slice3(tasks[r].schoolsToCompare))
  /\ tasks' = [tasks EXCEPT ![r] = [@ EXCEPT !.pc = "fetchScholarships", !.idx = 1]]
  /\ UNCHANGED HandlerVars

\* one iteration of the scholarship loop
TaskFetchScholarships(r) ==
  /\ tasks[r].pc = "fetchScholarships"
  /\ tasks[r].askingAboutScholarships
  /\ tasks[r].idx <= Len(Slice3(tasks[r].schoolsToCompare))
  /\ LET school == tasks[r].schoolsToCompare[tasks[r].idx]
     IN tasks' = [tasks EXCEPT ![r] =
          [@ EXCEPT !.scholarshipsMap =
                      Append(@, [school |-> school, list |-> fetchCollegeScholarships(school)]),
                    !.idx = @ + 1]]
  /\ UNCHANGED HandlerVars

\* prompt composition, model.startChat, and chat.sendMessageStream is called
TaskOpenSession(r) ==
  /\ tasks[r].pc = "fetchScholarships"
  /\ \/ ~ tasks[r].askingAboutScholarships
     \/ tasks[r].idx > Len(Slice3(tasks[r].schoolsToCompare))
  /\ LET t == tasks[r]
         messages == t.body.messages.items
         prompt == ComposePrompt(t.body.context.collegeName, t.cdsDataMap,
                                 t.scholarshipsMap, t.schoolsToCompare,
                                 t.askingAboutScholarships)
     IN tasks' = [tasks EXCEPT ![r] =
          [@ EXCEPT !.systemPrompt = prompt,
                    !.session = [open |-> TRUE,
                                 history |-> SeedHistory(prompt, messages),
                                 submitted |-> TRUE,
                                 message |-> messages[Len(messages)].content],
                    !.pc = "awaitSend"]]
  /\ UNCHANGED HandlerVars

\* the call resolves with a result whose stream is then iterated
TaskSendResolved(r) ==
  /\ tasks[r].pc = "awaitSend"
  /\ tasks' = [tasks EXCEPT ![r] = [@ EXCEPT !.pc = "stream"]]
  /\ UNCHANGED HandlerVars

\* the session of request r yields one chunk: the loop body of r runs
TaskStreamChunk(r) ==
  /\ tasks[r].pc = "stream"
  /\ Len(tasks[r].received) < MaxTaskFrags
  /\ \E text \in TaskFragments(r) :
       LET got == [tasks EXCEPT ![r] = [@ EXCEPT !.received = Append(@, text)]]
       IN tasks' = [got EXCEPT ![Target(r)] = [@ EXCEPT !.res = Forward(@, text)]]
  /\ UNCHANGED HandlerVars

\* the stream of request r ends
TaskStreamEnd(r) ==
  /\ tasks[r].pc = "stream"
  /\ tasks' = [tasks EXCEPT ![r] = [@ EXCEPT !.res = Finish(@), !.pc = "completed"]]
  /\ UNCHANGED HandlerVars

\* the call rejects or the stream throws: the catch block of request r runs
TaskRaise(r) ==
  /\ tasks[r].pc \in { "awaitSend", "stream" }
  /\ \E error \in TaskThrown :
       tasks' = [tasks EXCEPT ![r] =
         [@ EXCEPT !.res = Catch(@, error), !.caught = <<error>>, !.pc = "failed"]]
  /\ UNCHANGED HandlerVars

TaskStores == { store \in Stores : store.scholarships # <<>> }

InitTasks ==
  /\ arg = NoArg
  /\ ret = NoRet
  /\ collegeList = HandlerCatalog
  /\ method = "POST"
  /\ body \in { b \in BadBodies : b.messages.kind = "missing" }
  /\ \E store \in TaskStores : docs = store.docs /\ scholarshipDocs = store.scholarships
  /\ HandlerInit
  /\ tasks \in [Requests -> { NewTask(b) : b \in TaskBodies }]
  /\ chat = NoChat

NextTasks ==
  \E r \in Requests :
    \/ TaskReject400(r)
    \/ TaskAccept(r)
    \/ TaskFetchCDS(r)
    \/ TaskCDSDone(r)
    \/ TaskFetchScholarships(r)
    \/ TaskOpenSession(r)
    \/ TaskSendResolved(r)
    \/ TaskStreamChunk(r)
    \/ TaskStreamEnd(r)
    \/ TaskRaise(r)

SpecTasks == InitTasks /\ [][NextTasks]_vars

\* the texts of the {content} events of a response
ContentOf(events) ==
  LET at == SelectSeq(events, LAMBDA e : e.type = "content")
  IN [i \in 1..Len(at) |-> at[i].text]

\* the texts the loop body forwards for the fragments a session has yielded
ForwardedOf(fragments) ==
  LET kept == SelectSeq(fragments, LAMBDA text : text # <<>>)
  IN [i \in 1..Len(kept) |-> StripFormatting(kept[i])]

\* C20: with requests handled as interleaved tasks, the content events of
\* each response are exactly the fragments of that request's own model
\* session, in that session's order, and the session is seeded from that
\* request's own messages; a step of one request changes neither the locals
\* of another request nor the catalog or the document store.
C20_Isolation ==
  /\ [](\A r \in Requests :
          /\ ContentOf(tasks[r].res.events) = ForwardedOf(tasks[r].received)
          /\ \A i \in 1..Len(tasks[r].received) : tasks[r].received[i] \in TaskFragments(r)
          /\ tasks[r].session.open =>
               tasks[r].session.history =
                 SeedHistory(tasks[r].systemPrompt, tasks[r].body.messages.items))
  /\ [][ /\ collegeList' = collegeList
         /\ docs' = docs
         /\ scholarshipDocs' = scholarshipDocs
         /\ \A r, q \in Requests :
              (r # q /\ tasks[r]' # tasks[r]) => tasks[q]' = tasks[q] ]_vars

\* both requests are in the middle of their streams, each with content
\* written, the second one having started to stream before the first ended
C20_Witness ==
  /\ tasks # <<>>
  /\ \A r \in Requests :
       /\ tasks[r].pc = "stream"
       /\ tasks[r].res.events # <<>>
       /\ ~ tasks[r].res.ended
  /\ tasks[1].body # tasks[2].body

-----------------------------------------------------------------------------
(* Context resolution on its own: the handler from the accepted request to *)
(* the opening of the model session, for messages that name more schools   *)
(* than are looked up.                                                     *)

M_FourScholarship == JoinWords(<<W_yale, W_brown, W_harvard, W_washington, W_scholarship>>)

FetchBodies ==
  { [messages |-> [kind |-> "array", items |-> <<[role |-> "user", content |-> c]>>],
     context |-> [collegeName |-> cn]] :
      c \in { M_Four, M_FourScholarship, M_Scholarship, M_YaleBrown },
      cn \in { <<>>, N_UW, N_Brown } }

InitFetch ==
  /\ arg = NoArg
  /\ ret = NoRet
  /\ collegeList = HandlerCatalog
  /\ method = "POST"
  /\ body \in FetchBodies
  /\ \E store \in Stores : docs = store.docs /\ scholarshipDocs = store.scholarships
  /\ HandlerInit
  /\ tasks = <<>>
  /\ chat = NoChat

NextFetch ==
  \/ Accept
  \/ FetchCDS
  \/ CDSDone
  \/ FetchScholarships
  \/ OpenSession

SpecFetch == InitFetch /\ [][NextFetch]_vars

\* C21: every step that reads the document store is the fetch for candidate
\* idx of the list, idx is at most 3 and moves on by one, and it starts again
\* at 1 only for the scholarship loop, which runs only when scholarship data
\* is needed: at most 3 institution-record fetches and at most 3 scholarship
\* fetches, for the first 3 candidates in list order.
C21_FetchCap ==
  /\ [](/\ Len(cdsDataMap) <= MaxSchools
        /\ Len(scholarshipsMap) <= MaxSchools
        /\ pc \in { "fetchCDS", "fetchScholarships" } => idx - 1 <= MaxSchools
        /\ \A i \in 1..Len(scholarshipsMap) :
             scholarshipsMap[i].school = schoolsToCompare[i]
        /\ \A i \in 1..Len(cdsDataMap) :
             \E j \in 1..MaxSchools :
               j <= Len(schoolsToCompare) /\ cdsDataMap[i].school = schoolsToCompare[j])
  /\ [][ (storeReads' # storeReads \/ cdsDataMap' # cdsDataMap
            \/ scholarshipsMap' # scholarshipsMap) =>
           /\ idx \in 1..MaxSchools
           /\ idx <= Len(schoolsToCompare)
           /\ idx' = idx + 1
           /\ pc \in { "fetchCDS", "fetchScholarships" }
           /\ pc' = pc
           /\ pc = "fetchScholarships" => askingAboutScholarships
           /\ \A i \in 1..Len(cdsDataMap') :
                i > Len(cdsDataMap) => cdsDataMap'[i].school = schoolsToCompare[idx]
           /\ \A i \in 1..Len(scholarshipsMap') :
                i > Len(scholarshipsMap) => scholarshipsMap'[i].school = schoolsToCompare[idx] ]_vars
  /\ [][ idx' # idx => idx' = idx + 1 \/ idx' = 1 ]_vars

\* more than 3 candidates, scholarship data needed, both loops over: three
\* institution fetches and three scholarship fetches were made
C21_Witness ==
  /\ Len(schoolsToCompare) > MaxSchools
  /\ askingAboutScholarships
  /\ pc = "send"
  /\ Len(scholarshipsMap) = MaxSchools
  /\ storeReads >= 2 * MaxSchools

-----------------------------------------------------------------------------
(* Failures of the document store during context resolution.               *)

\* C22: a read of the document store that throws, or a name no record
\* matches, never fails the request: the step leaves the response and the
\* control position alone, the institution fetch adds nothing (absence) and
\* the scholarship fetch adds a list, possibly empty; the catch block runs
\* only after the message was submitted to the model, and the fetch loops
\* are left only towards the opening of the model session.
C22_FetchNeverFails ==
  /\ [](/\ (caught # <<>> \/ pc = "failed") => session.submitted
        /\ pc \in { "fetchCDS", "fetchScholarships" } =>
             /\ ~ res.headersSent
             /\ ~ res.ended
        /\ \A i \in 1..Len(cdsDataMap) : cdsDataMap[i].doc # 0)
  /\ [][ storeReads' # storeReads =>
           /\ res' = res
           /\ caught' = caught
           /\ pc' = pc
           /\ idx' = idx + 1
           /\ pc = "fetchCDS" => Len(cdsDataMap') \in { Len(cdsDataMap), Len(cdsDataMap) + 1 }
           /\ pc = "fetchScholarships" => Len(scholarshipsMap') = Len(scholarshipsMap) + 1 ]_vars
  /\ [][ /\ (pc = "fetchCDS" /\ pc' # pc) => pc' = "fetchScholarships"
         /\ (pc = "fetchScholarships" /\ pc' # pc) => (pc' = "send" /\ session'.open) ]_vars

\* a read threw for a school that has a record and for a school that has
\* scholarships, and the request went on to stream content
C22_Witness ==
  /\ pc = "stream"
  /\ res.events # <<>>
  /\ \E i \in 1..Len(Slice3(schoolsToCompare)) :
       /\ fetchCollegeCDS(schoolsToCompare[i]) # 0
       /\ \A j \in 1..Len(cdsDataMap) : cdsDataMap[j].school # schoolsToCompare[i]
  /\ \E i \in 1..Len(scholarshipsMap) :
       /\ scholarshipsMap[i].list = <<>>
       /\ fetchCollegeScholarships(scholarshipsMap[i].school) # <<>>

-----------------------------------------------------------------------------
(* The record fetcher on its own: fetchCollegeCDS over small document      *)
(* stores.                                                                 *)

MaxDocs == 2

DocPool == { D_Brown, D_UW, D_Yale }

\* stores: sequences of distinct documents in scan order
DocStores ==
  { d \in UNION { [1..k -> DocPool] : k \in 1..MaxDocs } :
      \A i, j \in 1..Len(d) : i # j => d[i] # d[j] }

RecordNames == { N_Brown, N_UW, N_Yale, N_WashU, W_yale, W_washington }

InitRecords ==
  /\ arg \in { [op |-> "fetch", text |-> n] : n \in RecordNames }
  /\ ret = NoRet
  /\ collegeList = HandlerCatalog
  /\ method = "POST"
  /\ body \in { b \in BadBodies : b.messages.kind = "missing" }
  /\ docs \in DocStores
  /\ scholarshipDocs = <<>>
  /\ HandlerInit
  /\ tasks = <<>>
  /\ chat = NoChat

RunFetch ==
  /\ arg.op = "fetch"
  /\ ~ ret.done
  /\ ret' = [done |-> TRUE, value |-> fetchCollegeCDS(arg.text)]
  /\ UNCHANGED <<chat, assistantTurn, tasks, arg, collegeList, method, body, docs, scholarshipDocs, pc,
                 schoolsToCompare, idx, cdsDataMap, askingAboutScholarships,
                 scholarshipsMap, systemPrompt, session, received, res, storeReads,
                 caught>>

SpecRecords == InitRecords /\ [][RunFetch]_vars

\* the test of findCollegeId applied to the institution name of a record
RuleMatches(doc, collegeName) ==
  EntryMatches([label |-> InstitutionOf(doc), value |-> InstitutionOf(doc)],
               NormalizeName(collegeName))

\* C23: the record fetcher returns the first record in scan order whose
\* institution name matches the candidate under the rule of the catalog
\* resolution (normalised name equal to, contained in or containing the
\* lower-cased stored name), and absence when no record matches.
C23_SameRule ==
  ret.done =>
    LET hits == { i \in 1..Len(docs) : RuleMatches(docs[i], arg.text) }
    IN ret.value = IF hits = {} THEN 0 ELSE Min(hits)

-----------------------------------------------------------------------------
(* The streaming loop over a model output that arrives in two fragments.   *)

MaxSplitLen == 4

\* a model output and the place where the stream cuts it into two chunks
SplitInputs ==
  { [op |-> "split", text |-> t, cut |-> k] :
      t \in UNION { [1..n -> FragmentChars] : n \in 1..MaxSplitLen }, k \in 0..MaxSplitLen }

InitSplit ==
  /\ arg \in { a \in SplitInputs : a.cut <= Len(a.text) }
  /\ ret = NoRet
  /\ collegeList = HandlerCatalog
  /\ HandlerOff

\* the events the loop writes for the two chunks, in order
RunSplit ==
  /\ arg.op = "split"
  /\ ~ ret.done
  /\ ret' = [done |-> TRUE,
             value |-> Forward(Forward(InitRes, SubSeq(arg.text, 1, arg.cut)),
                               SubSeq(arg.text, arg.cut + 1, Len(arg.text))).events]
  /\ UNCHANGED <<chat, assistantTurn, tasks, arg, collegeList, method, body, docs,
                 scholarshipDocs, pc, schoolsToCompare, idx, cdsDataMap,
                 askingAboutScholarships, scholarshipsMap, systemPrompt, session,
                 received, res, storeReads, caught>>

SpecSplit == InitSplit /\ [][RunSplit]_vars

\* the texts of the events, appended in order (what the client accumulates)
RECURSIVE Accumulated(_)
Accumulated(events) ==
  IF events = <<>> THEN <<>> ELSE Head(events).text \o Accumulated(Tail(events))

\* C26 as stated: however the model output is cut into fragments, the
\* concatenation of the forwarded fragments equals the stripper applied to
\* the whole output.
C26_BoundaryIndependent ==
  (ret.done /\ arg.op = "split") =>
    Accumulated(ret.value) = StripFormatting(arg.text)

\* C29 as stated: a fragment without asterisks whose underscores all lie
\* between two alphanumeric characters is forwarded character for character.
C29_NonMarkupKept ==
  (/\ ret.done
   /\ arg.op = "forward"
   /\ arg.text # <<>>
   /\ \A i \in 1..Len(arg.text) :
        /\ arg.text[i] # "*"
        /\ arg.text[i] = "_" =>
             /\ i > 1 /\ arg.text[i - 1] = "a"
             /\ i < Len(arg.text) /\ arg.text[i + 1] = "a")
  => ret.value = <<ContentEvent(arg.text)>>

-----------------------------------------------------------------------------
(* The chat component (AIChatDrawer, ChatPage): its React state, the       *)
(* requests of sendMessage that are in flight with their locals, and the   *)
(* response bytes the transport still has to deliver.                      *)

MaxWireEvents == 1

k_data == <<"d", "a", "t", "a", ":", " ">>
k_content_open == <<"{", "\"", "c", "o", "n", "t", "e", "n", "t", "\"", ":", "\"">>
k_error_open == <<"{", "\"", "e", "r", "r", "o", "r", "\"", ":", "\"">>
k_string_close == <<"\"", "}">>
k_done_json == <<"{", "\"", "d", "o", "n", "e", "\"", ":", "t", "r", "u", "e", "}">>
k_event_end == <<"\n", "\n">>
FailedToFetch == <<"F", "a", "i", "l", "e", "d", " ", "t", "o", " ", "f", "e", "t", "c", "h">>

\* JSON.stringify of an event (texts without characters that need an escape)
Json(event) ==
  IF event.type = "content" THEN k_content_open \o event.text \o k_string_close
  ELSE IF event.type = "error" THEN k_error_open \o event.text \o k_string_close
  ELSE k_done_json

\* the bytes res.write has produced for the events of a response
RECURSIVE Wire(_)
Wire(events) ==
  IF events = <<>> THEN <<>>
  ELSE k_data \o Json(Head(events)) \o k_event_end \o Wire(Tail(events))

\* chunk.text() of the i-th chunk of a model stream
ChunkText(i) == IF i % 2 = 1 THEN <<"a">> ELSE <<"b">>

\* the response of the handler after n chunks
RECURSIVE Forwarded(_)
Forwarded(n) == IF n = 0 THEN InitRes ELSE Forward(Forwarded(n - 1), ChunkText(n))

ChatError == [isError |-> TRUE, message |-> E_boom]

\* responses of the endpoint: n chunks and then the end of the stream or an
\* exception of the model call
ChatResponses ==
  { Finish(Forwarded(n)) : n \in 0..MaxWireEvents }
    \cup { Catch(Forwarded(n), ChatError) : n \in 0..MaxWireEvents }

\* the events a data: line of these responses can carry
WireEvents == UNION { { r.events[i] : i \in 1..Len(r.events) } : r \in ChatResponses }

NoEvent == [type |-> "none", text |-> <<>>]

\* JSON.parse(line.slice(6)): the event, or NoEvent when it throws
ParseData(payload) ==
  IF \E e \in WireEvents : Json(e) = payload
  THEN CHOOSE e \in WireEvents : Json(e) = payload
  ELSE NoEvent

\* the for loop over chunk.split("\n"): content is appended; a line that is
\* no data: line or does not parse is skipped, and so is an {error} event,
\* whose Error is caught by the try around JSON.parse
RECURSIVE ProcessLines(_, _, _)
ProcessLines(lines, i, assistantContent) ==
  IF i > Len(lines) THEN assistantContent
  ELSE LET line == lines[i]
           data == IF StartsWith(line, k_data)
                   THEN ParseData(SubSeq(line, Len(k_data) + 1, Len(line)))
                   ELSE NoEvent
       IN ProcessLines(lines, i + 1,
                       IF data.type = "content" /\ data.text # <<>>
                       THEN assistantContent \o data.text
                       ELSE assistantContent)

Turn(role, content) == [role |-> role, content |-> content]

\* what the user can type, and the text of a suggestion button of ChatPage
ChatInputs == { W_hi, <<" ">> }
Suggestions == { M_YaleBrown }

\* the exchanges of one conversation
Exchanges == { 1, 2 }

RemoveAt(xs, r) == SubSeq(xs, 1, r - 1) \o SubSeq(xs, r + 1, Len(xs))

\* the guard of sendMessage without the test of isLoading
CanSendWhileLoading == Trim(chat.input) # <<>>

\* if (!input.trim() || isLoading) return
CanSend == Trim(chat.input) # <<>> /\ ~ chat.isLoading

\* the assistant turn the outer catch block writes for an Error with this message
ErrorTurn(message) ==
  Turn("assistant", IF chat.component = "AIChatDrawer" THEN Apology ELSE message)

\* onChange of the input (disabled while isLoading), or a suggestion button
\* of ChatPage (rendered while the message list is empty)
ChatSetInput ==
  /\ \E text \in ChatInputs \cup Suggestions :
       /\ \/ text \in ChatInputs /\ ~ chat.isLoading
          \/ text \in Suggestions /\ chat.component = "ChatPage" /\ chat.messages = <<>>
       /\ chat.input # text
       /\ chat' = [chat EXCEPT !.input = text]
  /\ UNCHANGED <<tasks, assistantTurn, arg, ret, collegeList, method, body, docs,
                 scholarshipDocs, pc, schoolsToCompare, idx, cdsDataMap,
                 askingAboutScholarships, scholarshipsMap, systemPrompt, session,
                 received, res, storeReads, caught>>

\* sendMessage up to the fetch call
ChatSend ==
  /\ CanSend
  /\ Len(chat.sent) < Cardinality(Exchanges)
  /\ LET newMessages == Append(chat.messages, Turn("user", Trim(chat.input)))
     IN chat' = [chat EXCEPT
          !.messages = Append(newMessages, Turn("assistant", <<>>)),
          !.input = <<>>,
          !.isLoading = TRUE,
          !.sent = Append(@, [messages |-> newMessages]),
          !.requests = Append(@, [pc |-> "fetch", newMessages |-> newMessages,
                                  assistantContent |-> <<>>, wire |-> <<>>,
                                  events |-> <<>>])]
  /\ UNCHANGED <<tasks, assistantTurn, arg, ret, collegeList, method, body, docs,
                 scholarshipDocs, pc, schoolsToCompare, idx, cdsDataMap,
                 askingAboutScholarships, scholarshipsMap, systemPrompt, session,
                 received, res, storeReads, caught>>

\* fetch rejects, or the response is not ok: the catch block and finally
ChatResponseError ==
  \E r \in 1..Len(chat.requests) :
      /\ chat.requests[r].pc = "fetch"
      /\ \E message \in { FailedToFetch }
                \cup { sendMessage("ChatPage", response).content :
                         response \in { x \in ChatResponses : ~ Ok(x) } } :
           chat' = [chat EXCEPT
             !.messages = Append(chat.requests[r].newMessages, ErrorTurn(message)),
             !.isLoading = FALSE,
             !.requests = RemoveAt(@, r)]
      /\ UNCHANGED <<tasks, assistantTurn, arg, ret, collegeList, method, body, docs,
                     scholarshipDocs, pc, schoolsToCompare, idx, cdsDataMap,
                     askingAboutScholarships, scholarshipsMap, systemPrompt, session,
                     received, res, storeReads, caught>>

\* fetch resolves with an ok response: the reader is taken
ChatResponseStream ==
  \E r \in 1..Len(chat.requests) :
      /\ chat.requests[r].pc = "fetch"
      /\ \E response \in { x \in ChatResponses : Ok(x) } :
           chat' = [chat EXCEPT
             !.requests[r] = [@ EXCEPT !.pc = "read",
                                       !.events = response.events,
                                       !.wire = Wire(response.events)]]
      /\ UNCHANGED <<tasks, assistantTurn, arg, ret, collegeList, method, body, docs,
                     scholarshipDocs, pc, schoolsToCompare, idx, cdsDataMap,
                     askingAboutScholarships, scholarshipsMap, systemPrompt, session,
                     received, res, storeReads, caught>>

\* reader.read() resolves with the next n bytes: one run of the loop body
ChatRead ==
  \E r \in 1..Len(chat.requests) :
      /\ chat.requests[r].pc = "read"
      /\ \E n \in 1..Len(chat.requests[r].wire) :
           LET req == chat.requests[r]
               chunk == SubSeq(req.wire, 1, n)
               assistantContent == ProcessLines(Split(chunk, "\n"), 1, req.assistantContent)
           IN chat' = [chat EXCEPT
                !.messages = IF assistantContent # req.assistantContent
                             THEN Append(req.newMessages, Turn("assistant", assistantContent))
                             ELSE @,
                !.requests[r] = [@ EXCEPT !.assistantContent = assistantContent,
                                          !.wire = SubSeq(req.wire, n + 1, Len(req.wire))]]
      /\ UNCHANGED <<tasks, assistantTurn, arg, ret, collegeList, method, body, docs,
                     scholarshipDocs, pc, schoolsToCompare, idx, cdsDataMap,
                     askingAboutScholarships, scholarshipsMap, systemPrompt, session,
                     received, res, storeReads, caught>>

\* reader.read() resolves with done: break, then finally
ChatReadDone ==
  \E r \in 1..Len(chat.requests) :
      /\ chat.requests[r].pc = "read"
      /\ chat.requests[r].wire = <<>>
      /\ chat' = [chat EXCEPT !.isLoading = FALSE, !.requests = RemoveAt(@, r)]
      /\ UNCHANGED <<tasks, assistantTurn, arg, ret, collegeList, method, body, docs,
                     scholarshipDocs, pc, schoolsToCompare, idx, cdsDataMap,
                     askingAboutScholarships, scholarshipsMap, systemPrompt, session,
                     received, res, storeReads, caught>>

\* reader.read() rejects: the catch block and finally
ChatReadFails ==
  \E r \in 1..Len(chat.requests) :
      /\ chat.requests[r].pc = "read"
      /\ chat' = [chat EXCEPT
           !.messages = Append(chat.requests[r].newMessages, ErrorTurn(FailedToFetch)),
           !.isLoading = FALSE,
           !.requests = RemoveAt(@, r)]
      /\ UNCHANGED <<tasks, assistantTurn, arg, ret, collegeList, method, body, docs,
                     scholarshipDocs, pc, schoolsToCompare, idx, cdsDataMap,
                     askingAboutScholarships, scholarshipsMap, systemPrompt, session,
                     received, res, storeReads, caught>>

\* the Clear chat button, rendered while the message list is not empty
clearChat ==
  /\ chat.messages # <<>>
  /\ chat' = [chat EXCEPT !.messages = <<>>]
  /\ UNCHANGED <<tasks, assistantTurn, arg, ret, collegeList, method, body, docs,
                 scholarshipDocs, pc, schoolsToCompare, idx, cdsDataMap,
                 askingAboutScholarships, scholarshipsMap, systemPrompt, session,
                 received, res, storeReads, caught>>

InitChat ==
  /\ arg = NoArg
  /\ ret = NoRet
  /\ collegeList = HandlerCatalog
  /\ method = "POST"
  /\ body \in { b \in BadBodies : b.messages.kind = "missing" }
  /\ docs = <<>>
  /\ scholarshipDocs = <<>>
  /\ HandlerInit
  /\ tasks = <<>>
  /\ chat \in { [NoChat EXCEPT !.component = c] : c \in Components }

NextChat ==
  \/ ChatSetInput
  \/ ChatSend
  \/ clearChat
  \/ ChatResponseError
  \/ ChatResponseStream
  \/ ChatRead
  \/ ChatReadDone
  \/ ChatReadFails

SpecChat == InitChat /\ [][NextChat]_vars

-----------------------------------------------------------------------------
(* Properties of the chat component.                                       *)

\* the texts of the {content} events of a response, appended in order
ContentWritten(events) ==
  Accumulated(SelectSeq(events, LAMBDA e : e.type = "content"))

\* C24 as stated: when the whole of a response that ends with {done:true}
\* has been read, the text the client has accumulated is the concatenation
\* of the {content} fragments the server wrote, however the transport has
\* grouped the bytes into reads.
C24_AccumulatedText ==
  \A r \in 1..Len(chat.requests) :
    LET req == chat.requests[r]
    IN (/\ req.pc = "read"
        /\ req.wire = <<>>
        /\ req.events[Len(req.events)].type = "done")
       => req.assistantContent = ContentWritten(req.events)

\* C25 as stated: an empty message list becomes non-empty only by a send of
\* the user, so the list stays empty after clearChat until the next send.
C25_ClearIsDurable ==
  [][ (chat.messages = <<>> /\ chat'.messages # <<>>) =>
        Len(chat'.sent) = Len(chat.sent) + 1 ]_vars

\* C27: isLoading is true exactly while a request of the component is in
\* flight, there is never more than one, no request is sent while isLoading
\* is true, and every step that ends a request leaves isLoading false.
C27_OneInFlight ==
  /\ [](/\ chat.isLoading <=> chat.requests # <<>>
        /\ Len(chat.requests) <= 1)
  /\ [][ /\ chat.isLoading => chat'.sent = chat.sent
         /\ Len(chat'.requests) < Len(chat.requests) => ~ chat'.isLoading ]_vars

\* sendMessage can be reached with text in the input while a request is in
\* flight (ChatPage: the list was cleared and a suggestion was clicked)
C27_Witness ==
  /\ chat.isLoading
  /\ Trim(chat.input) # <<>>
  /\ chat.requests # <<>>
  /\ chat.requests[1].pc = "read"

\* C28 as stated: when no request is in flight, no assistant turn of the
\* list has empty text.
C28_NoPlaceholderLeft ==
  ~ chat.isLoading =>
    \A i \in 1..Len(chat.messages) :
      chat.messages[i].role = "assistant" => chat.messages[i].content # <<>>

\* the list alternates user, assistant, ... starting with a user turn
Alternates(messages) ==
  \A i \in 1..Len(messages) :
    messages[i].role = IF i % 2 = 1 THEN "user" ELSE "assistant"

\* C30 as stated: the message list alternates from a user turn on, and every
\* body sent has a non-empty messages list that ends with a user turn and
\* has no turn with empty text.
C30_WellFormedLists ==
  /\ Alternates(chat.messages)
  /\ \A k \in 1..Len(chat.sent) :
       LET messages == chat.sent[k].messages
       IN /\ messages # <<>>
          /\ messages[Len(messages)].role = "user"
          /\ \A i \in 1..Len(messages) : messages[i].content # <<>>

=============================================================================
